---- MODULE Spec2Model ----
(***************************************************************************)
(* Model of the binary-to-PNG container codec of src/audio_base64.py:      *)
(* bytes_to_png_data (encoder), manual_png_decode (decoder) and the pure   *)
(* helpers they call (delta coding, PNG row filters, filter search,        *)
(* compression negotiation).  Bytes are integers 0..255, byte strings are  *)
(* sequences; Python's 0-based slices are written Slice(s, a, b).          *)
(***************************************************************************)
EXTENDS Integers, Sequences, FiniteSets, TLC

(***************************************************************************)
(* Bounds of the model.                                                    *)
(***************************************************************************)
\* largest number of chunks of unknown type put into a container
MaxUnknown == 2
\* longest payload drawn freely over InputBytes
MaxLen == 2
\* longest payload of the structured families (constant, ramp, triangular)
MaxRun == 8
\* longest row of the row filter specification
MaxRow == 2
\* longest byte string of the delta coding specification
MaxDelta == 4
\* longest compressed body of the small framed payloads of the grid
\* specification
MaxBody == 20

\* byte values payloads are drawn from
InputBytes == {0, 1, 255}

\* byte values rows and previous rows are drawn from
FilterBytes == {0, 1, 2, 255}

Byte == 0..255

\* Values of 2^29 and above are represented by Huge: every use of such a
\* value in the decoder is a slice bound or a comparison with a buffer
\* length, and all buffers of the model are far shorter than 2^29.
Huge == 536870912

(***************************************************************************)
(* Python sequence primitives.                                             *)
(***************************************************************************)
Min(a, b) == IF a <= b THEN a ELSE b

Max(a, b) == IF a >= b THEN a ELSE b

\* s[a:b] for 0 <= a, with Python's clamping of both bounds
Slice(s, a, b) ==
    LET lo == Min(a, Len(s))
        hi == Min(b, Len(s))
    IN IF hi <= lo THEN << >> ELSE SubSeq(s, lo + 1, hi)

\* s[i] for a 0-based index known to be in range
At(s, i) == s[i + 1]

\* bytes(n) / bytearray(n) / b'\x00' * n
Zeros(n) == [i \in 1..n |-> 0]

Reverse(s) == [i \in 1..Len(s) |-> s[Len(s) + 1 - i]]

RECURSIVE ConcatRange(_, _, _)
ConcatRange(ss, lo, hi) ==
    IF lo > hi THEN << >>
    ELSE IF lo = hi THEN ss[lo]
    ELSE LET mid == (lo + hi) \div 2
         IN ConcatRange(ss, lo, mid) \o ConcatRange(ss, mid + 1, hi)

\* the concatenation of a sequence of byte strings
Concat(ss) == ConcatRange(ss, 1, Len(ss))

(***************************************************************************)
(* struct.pack / struct.unpack                                             *)
(***************************************************************************)
\* struct.pack('>I', n) for n < 2^29
PackBE32(n) == << (n \div 16777216) % 256, (n \div 65536) % 256,
                  (n \div 256) % 256, n % 256 >>

\* struct.pack('<Q', n) for n < 2^29
PackLE64(n) == << n % 256, (n \div 256) % 256, (n \div 65536) % 256,
                  (n \div 16777216) % 256, 0, 0, 0, 0 >>

\* struct.unpack('>I', s)[0] of a 4-byte string
UnpackBE32(s) ==
    IF s[1] >= 32 THEN Huge
    ELSE s[1] * 16777216 + s[2] * 65536 + s[3] * 256 + s[4]

\* struct.unpack('<Q', s)[0] of an 8-byte string
UnpackLE64(s) ==
    IF s[4] >= 32 \/ s[5] # 0 \/ s[6] # 0 \/ s[7] # 0 \/ s[8] # 0 THEN Huge
    ELSE s[4] * 16777216 + s[3] * 65536 + s[2] * 256 + s[1]

(***************************************************************************)
(* zlib.crc32: the reflected CRC-32 (polynomial 0xEDB88320), table driven. *)
(* A 32-bit value is kept as its four bytes, least significant first, so   *)
(* struct.pack('<I', crc) is the value itself and '>I' its reverse.        *)
(***************************************************************************)
RECURSIVE XorBits(_, _, _)
XorBits(a, b, n) ==
    IF n = 0 THEN 0
    ELSE ((a + b) % 2) + 2 * XorBits(a \div 2, b \div 2, n - 1)

XorTable == [a \in Byte |-> [b \in Byte |-> XorBits(a, b, 8)]]

Xor8(a, b) == XorTable[a][b]

\* one shift-and-conditional-xor step on <<high 16 bits, low 16 bits>>
CrcShift(c) ==
    LET hi == c[1] \div 2
        lo == (c[2] \div 2) + (c[1] % 2) * 32768
    IN IF c[2] % 2 = 1
       THEN << XorBits(hi, 60856, 16), XorBits(lo, 33568, 16) >>
       ELSE << hi, lo >>

RECURSIVE CrcShiftN(_, _)
CrcShiftN(c, n) == IF n = 0 THEN c ELSE CrcShiftN(CrcShift(c), n - 1)

CrcTable ==
    [n \in Byte |->
        LET c == CrcShiftN(<< 0, n >>, 8)
        IN << c[2] % 256, c[2] \div 256, c[1] % 256, c[1] \div 256 >>]

CrcStep(c, b) ==
    LET t == CrcTable[Xor8(c[1], b)]
    IN << Xor8(t[1], c[2]), Xor8(t[2], c[3]), Xor8(t[3], c[4]), t[4] >>

RECURSIVE CrcFold(_, _, _, _)
\* the register after the bytes s[lo..hi], taken in order (the range is
\* split in halves, the first half evaluated before the second, to keep
\* the evaluation shallow)
CrcFold(s, lo, hi, c) ==
    IF lo > hi THEN c
    ELSE IF lo = hi THEN CrcStep(c, s[lo])
    ELSE LET mid  == (lo + hi) \div 2
             left == CrcFold(s, lo, mid, c)
         IN IF Len(left) = 4 THEN CrcFold(s, mid + 1, hi, left) ELSE left

\* zlib.crc32(s) & 0xFFFFFFFF, as four bytes little-endian
crc32(s) ==
    LET c == CrcFold(s, 1, Len(s), << 255, 255, 255, 255 >>)
    IN << 255 - c[1], 255 - c[2], 255 - c[3], 255 - c[4] >>

(***************************************************************************)
(* The compression backends.  zlib and brotli are libraries outside the    *)
(* repository; each is modelled by a concrete lossless codec with the      *)
(* properties the codec relies on: decompress inverts compress, repetitive *)
(* input compresses smaller, every stream carries a fixed overhead, and a  *)
(* truncated or foreign stream makes decompress raise.  The zlib stream is *)
(* a 2-byte header, a run/literal token body and the Adler-32 of the plain *)
(* bytes; the brotli stream is a 1-byte header, the number of pairs (two    *)
(* bytes) and that many (count, value) pairs.                              *)
(* A call's outcome is [ok, bytes]; ok = FALSE is a raised exception.      *)
(***************************************************************************)
Raised == [ok |-> FALSE, bytes |-> << >>]

Returned(b) == [ok |-> TRUE, bytes |-> b]

\* longest run a single token holds
MaxToken == 127

\* the largest element of a non-empty set of integers
MaxOf(S) == CHOOSE m \in S : \A n \in S : n <= m

\* number of bytes equal to s[i] from position i on, at most MaxToken
RunLen(s, i) ==
    MaxOf({ r \in 1..Min(MaxToken, Len(s) - i + 1) :
              \A j \in i..(i + r - 1) : s[j] = s[i] })

\* number of bytes from position i on that start no run, at most MaxToken
LitLen(s, i) ==
    MaxOf({ k \in 0..Min(MaxToken, Len(s) - i + 1) :
              \A j \in i..(i + k - 1) : j = Len(s) \/ s[j + 1] # s[j] })

\* the two Adler-32 sums <<a, b>> after one more byte
AdlerStep(ab, v) ==
    << (ab[1] + v) % 65521, (ab[2] + ((ab[1] + v) % 65521)) % 65521 >>

RECURSIVE AdlerFold(_, _, _, _)
AdlerFold(s, lo, hi, ab) ==
    IF lo > hi THEN ab
    ELSE IF lo = hi THEN AdlerStep(ab, s[lo])
    ELSE LET mid  == (lo + hi) \div 2
             left == AdlerFold(s, lo, mid, ab)
         IN IF Len(left) = 2 THEN AdlerFold(s, mid + 1, hi, left) ELSE left

\* Adler-32 of s, four bytes big-endian (the trailer of a zlib stream)
adler32(s) ==
    LET ab == AdlerFold(s, 1, Len(s), << 1, 0 >>)
    IN << ab[2] \div 256, ab[2] % 256, ab[1] \div 256, ab[1] % 256 >>

RECURSIVE DeflateTokens(_, _)
DeflateTokens(s, i) ==
    IF i > Len(s) THEN << >>
    ELSE LET r == RunLen(s, i)
             k == LitLen(s, i)
         IN IF r >= 2
            THEN << 128 + r, s[i] >> \o DeflateTokens(s, i + r)
            ELSE << k >> \o SubSeq(s, i, i + k - 1) \o DeflateTokens(s, i + k)

RECURSIVE InflateTokens(_, _)
InflateTokens(t, i) ==
    IF i > Len(t) THEN Returned(<< >>)
    ELSE IF t[i] >= 130
         THEN IF i + 1 > Len(t) THEN Raised
              ELSE LET rest == InflateTokens(t, i + 2)
                   IN IF rest.ok
                      THEN Returned([j \in 1..(t[i] - 128) |-> t[i + 1]] \o rest.bytes)
                      ELSE Raised
         ELSE IF t[i] >= 1 /\ t[i] <= MaxToken
              THEN IF i + t[i] > Len(t) THEN Raised
                   ELSE LET rest == InflateTokens(t, i + 1 + t[i])
                        IN IF rest.ok
                           THEN Returned(SubSeq(t, i + 1, i + t[i]) \o rest.bytes)
                           ELSE Raised
              ELSE Raised

ZlibHeader == << 120, 218 >>

\* zlib.compress(data, 9)
zlib_compress(data) ==
    Returned(ZlibHeader \o DeflateTokens(data, 1) \o adler32(data))

\* zlib.decompress(data): raises zlib.error on anything but a whole stream
zlib_decompress(data) ==
    IF Len(data) < 6 \/ SubSeq(data, 1, 2) # ZlibHeader THEN Raised
    ELSE LET body == InflateTokens(SubSeq(data, 3, Len(data) - 4), 1)
         IN IF body.ok /\ adler32(body.bytes) = SubSeq(data, Len(data) - 3, Len(data))
            THEN body
            ELSE Raised

BrotliHeader == << 27 >>

\* the k-th smallest element of a set of integers
NthOf(S, k) == CHOOSE x \in S : Cardinality({ y \in S : y <= x }) = k

\* the positions of s at which a (count, value) pair starts: the first byte
\* of every run
PairStarts(s) == { i \in 1..Len(s) : i = 1 \/ s[i] # s[i - 1] }

\* the (count, value) pairs of s, in order
BrotliPairs(s) ==
    LET starts == PairStarts(s)
    IN Concat([k \in 1..Cardinality(starts) |->
                  LET i == NthOf(starts, k)
                  IN << RunLen(s, i), s[i] >>])

\* the bytes a well-formed pair stream t stands for
BrotliUnpairs(t) ==
    IF Len(t) % 2 # 0 \/ \E k \in 1..(Len(t) \div 2) : t[2 * k - 1] = 0
    THEN Raised
    ELSE Returned(Concat([k \in 1..(Len(t) \div 2) |->
                             [j \in 1..t[2 * k - 1] |-> t[2 * k]]]))

\* brotli.compress(data, quality=11)
brotli_compress(data) ==
    LET pairs == BrotliPairs(data)
    IN Returned(BrotliHeader
                  \o << (Len(pairs) \div 2) \div 256, (Len(pairs) \div 2) % 256 >>
                  \o pairs)

\* brotli.decompress(data): raises brotli.error on anything but a whole stream
brotli_decompress(data) ==
    IF Len(data) < 3 \/ SubSeq(data, 1, 1) # BrotliHeader THEN Raised
    ELSE IF Len(data) - 3 # 2 * (data[2] * 256 + data[3]) THEN Raised
    ELSE BrotliUnpairs(Slice(data, 3, Len(data)))

(***************************************************************************)
(* Delta pre-filter                                                        *)
(***************************************************************************)
\* apply_delta_encoding_optimized
apply_delta_encoding_optimized(data) ==
    IF Len(data) <= 1 THEN data
    ELSE [i \in 1..Len(data) |->
            IF i = 1 THEN data[1] ELSE (data[i] - data[i - 1] + 256) % 256]

RECURSIVE DeltaAccumulate(_, _, _, _)
\* result after the loop iterations lo..hi (1-based positions of data)
DeltaAccumulate(data, lo, hi, result) ==
    IF lo > hi THEN result
    ELSE IF lo = hi
         THEN Append(result, (result[Len(result)] + data[lo]) % 256)
    ELSE LET mid  == (lo + hi) \div 2
             left == DeltaAccumulate(data, lo, mid, result)
         IN IF Len(left) > 0 THEN DeltaAccumulate(data, mid + 1, hi, left) ELSE left

\* the decoding that adds the previous input byte instead of the previous
\* result byte
apply_delta_decoding_FromInput(data) ==
    [i \in 1..Len(data) |->
        IF i = 1 THEN data[1] ELSE (data[i - 1] + data[i]) % 256]

\* apply_delta_decoding
apply_delta_decoding(data) ==
    IF Len(data) <= 1 THEN data
    ELSE DeltaAccumulate(data, 2, Len(data), << data[1] >>)

(***************************************************************************)
(* PNG row filters                                                         *)
(***************************************************************************)
Abs(n) == IF n < 0 THEN -n ELSE n

\* left / up / upleft neighbours of the byte at 1-based position i
LeftOf(row_data, i) == IF i > 1 THEN row_data[i - 1] ELSE 0

UpOf(prev_row, i) == IF i <= Len(prev_row) THEN prev_row[i] ELSE 0

UpLeftOf(prev_row, i) == IF i > 1 /\ i <= Len(prev_row) THEN prev_row[i - 1] ELSE 0

PaethPredictor(left, up, upleft) ==
    LET p  == left + up - upleft
        pa == Abs(p - left)
        pb == Abs(p - up)
        pc == Abs(p - upleft)
    IN IF pa <= pb /\ pa <= pc THEN left
       ELSE IF pb <= pc THEN up
       ELSE upleft

\* the tag byte each branch of apply_png_filter starts its result with
FilterTag(filter_type) == IF filter_type = 1 THEN 0 ELSE filter_type

\* the predictors with the average rounded up
Predictor_AverageCeil(row_data, prev_row, filter_type, i) ==
    CASE filter_type = 1 -> LeftOf(row_data, i)
      [] filter_type = 2 -> UpOf(prev_row, i)
      [] filter_type = 3 -> (LeftOf(row_data, i) + UpOf(prev_row, i) + 1) \div 2
      [] filter_type = 4 -> PaethPredictor(LeftOf(row_data, i), UpOf(prev_row, i),
                                           UpLeftOf(prev_row, i))
      [] OTHER -> 0

\* the predictor each branch of apply_png_filter subtracts at position i
Predictor(row_data, prev_row, filter_type, i) ==
    CASE filter_type = 1 -> LeftOf(row_data, i)
      [] filter_type = 2 -> UpOf(prev_row, i)
      [] filter_type = 3 -> (LeftOf(row_data, i) + UpOf(prev_row, i)) \div 2
      [] filter_type = 4 -> PaethPredictor(LeftOf(row_data, i), UpOf(prev_row, i),
                                           UpLeftOf(prev_row, i))
      [] OTHER -> 0

\* apply_png_filter
apply_png_filter(row_data, prev_row, filter_type) ==
    << FilterTag(filter_type) >> \o
    [i \in 1..Len(row_data) |->
        (row_data[i] - Predictor(row_data, prev_row, filter_type, i) + 256) % 256]

\* a call of the compression_func argument, named by the callable passed:
\* "zlib" is lambda d: zlib.compress(d, 9), any other callable raises
CallCompressionFunc(compression_func, filtered) ==
    IF compression_func = "zlib" THEN zlib_compress(filtered) ELSE Raised

\* the iteration without the size comparison: the last candidate is kept
FilterTrial_NoCompare(best, row_data, prev_row, compression_func, filter_type) ==
    LET filtered   == apply_png_filter(row_data, prev_row, filter_type)
        compressed == CallCompressionFunc(compression_func, filtered)
    IN IF compressed.ok
       THEN [best_type |-> filter_type, best_size |-> Len(compressed.bytes),
             best_filtered |-> filtered, found |-> TRUE]
       ELSE best

\* one iteration of the loop of find_best_filter
FilterTrial(best, row_data, prev_row, compression_func, filter_type) ==
    LET filtered   == apply_png_filter(row_data, prev_row, filter_type)
        compressed == CallCompressionFunc(compression_func, filtered)
    IN IF compressed.ok /\ Len(compressed.bytes) < best.best_size
       THEN [best_type |-> filter_type, best_size |-> Len(compressed.bytes),
             best_filtered |-> filtered, found |-> TRUE]
       ELSE best

\* find_best_filter: (best_type, best_size, best_filtered); best_size = Huge
\* stands for float('inf') and found = FALSE for best_filtered = None
find_best_filter(row_data, prev_row, compression_func) ==
    LET b  == [best_type |-> 0, best_size |-> Huge, best_filtered |-> << >>,
               found |-> FALSE]
        b0 == FilterTrial(b,  row_data, prev_row, compression_func, 0)
        b1 == FilterTrial(b0, row_data, prev_row, compression_func, 1)
        b2 == FilterTrial(b1, row_data, prev_row, compression_func, 2)
        b3 == FilterTrial(b2, row_data, prev_row, compression_func, 3)
    IN FilterTrial(b3, row_data, prev_row, compression_func, 4)

(***************************************************************************)
(* Compression negotiation                                                 *)
(***************************************************************************)
\* the module-level flag: the try block around its assignment cannot raise
HAS_BROTLI == TRUE

CompressionNone == 255

CompressionZlib == 0

CompressionBrotli == 1

\* a backend call inside a try block; raising names the backends whose call
\* raises in this invocation
TryCompress(backend, data, raising) ==
    IF backend \in raising THEN Raised
    ELSE IF backend = "brotli" THEN brotli_compress(data)
    ELSE zlib_compress(data)

\* a try block that keeps the later backend's output whatever its size
NegotiateTrial_NoCompare(best, backend, id, data, raising) ==
    LET compressed == TryCompress(backend, data, raising)
    IN IF compressed.ok
       THEN [best_data |-> compressed.bytes, best_size |-> Len(compressed.bytes),
             best_type |-> id, is_none |-> FALSE]
       ELSE best

\* one try block of compress_with_best_algorithm
NegotiateTrial(best, backend, id, data, raising) ==
    LET compressed == TryCompress(backend, data, raising)
    IN IF compressed.ok /\ Len(compressed.bytes) < best.best_size
       THEN [best_data |-> compressed.bytes, best_size |-> Len(compressed.bytes),
             best_type |-> id, is_none |-> FALSE]
       ELSE best

\* the trials of compress_with_best_algorithm: brotli when present, then zlib
NegotiateBackends(data, raising) ==
    LET b  == [best_data |-> << >>, best_size |-> Huge,
               best_type |-> 0, is_none |-> TRUE]
        b1 == IF HAS_BROTLI
              THEN NegotiateTrial(b, "brotli", CompressionBrotli, data, raising)
              ELSE b
    IN NegotiateTrial(b1, "zlib", CompressionZlib, data, raising)

\* the negotiator without its early return for file_type 'mp3'
compress_with_best_algorithm_NoMp3(data, file_type, raising) ==
    NegotiateBackends(data, raising)

\* compress_with_best_algorithm: (best_data, best_type); is_none = TRUE
\* stands for best_data = None
compress_with_best_algorithm(data, file_type, raising) ==
    IF file_type = "mp3"
    THEN [best_data |-> data, best_size |-> Len(data),
          best_type |-> CompressionNone, is_none |-> FALSE]
    ELSE NegotiateBackends(data, raising)

(***************************************************************************)
(* Encoder: bytes_to_png_data                                              *)
(***************************************************************************)
png_signature == << 137, 80, 78, 71, 13, 10, 26, 10 >>

IHDR == << 73, 72, 68, 82 >>

IDAT == << 73, 68, 65, 84 >>

IEND == << 73, 69, 78, 68 >>

max_width == 1024

HeaderSize == 15

\* length prefix, type tag, data and CRC-32 trailer over type tag and data
\* a chunk whose CRC covers the data without the type tag
Chunk_CrcOverData(type, data) ==
    PackBE32(Len(data)) \o type \o data \o Reverse(crc32(data))

Chunk(type, data) ==
    PackBE32(Len(data)) \o type \o data \o Reverse(crc32(type \o data))

\* struct.pack('>IIBBBBB', width, height, 8, color_type, 0, 0, 0)
IhdrData(width, height, color_type) ==
    PackBE32(width) \o PackBE32(height) \o << 8, color_type, 0, 0, 0 >>

\* the embedded header followed by the compressed body
FramePayload(original_length, checksum, color, compression_type, use_rgb_interleaved, compressed_audio) ==
    PackLE64(original_length) \o checksum
      \o << IF color THEN 1 ELSE 0 >>
      \o << compression_type >>
      \o << IF use_rgb_interleaved THEN 1 ELSE 0 >>
      \o compressed_audio

\* the channel buffer (0 = R, 1 = G, 2 = B) of the interleaved layout
\* the channels cut as three consecutive thirds of the data
ChannelOf_Planar(data_with_header, pixels_per_channel, channel) ==
    [k \in 1..pixels_per_channel |->
        LET i == channel * pixels_per_channel + (k - 1)
        IN IF i < Len(data_with_header) THEN At(data_with_header, i) ELSE 0]

ChannelOf(data_with_header, pixels_per_channel, channel) ==
    [k \in 1..pixels_per_channel |->
        LET i == 3 * (k - 1) + channel
        IN IF i < Len(data_with_header) THEN At(data_with_header, i) ELSE 0]

\* pixels = bytearray(n); pixels[:len(data)] = data
PadPixels(data_with_header, n) ==
    [k \in 1..n |-> IF k <= Len(data_with_header) THEN data_with_header[k] ELSE 0]

RECURSIVE FilterRows(_, _, _)
\* the row loop: what find_best_filter returns for each row, called with the
\* previous unfiltered row
FilterRows(rows, i, prev_row) ==
    IF i > Len(rows) THEN << >>
    ELSE << find_best_filter(rows[i], prev_row, "zlib") >>
           \o FilterRows(rows, i + 1, rows[i])

\* bytes of one grid pixel
BytesPerPixel(color, use_rgb_interleaved) ==
    IF color /\ ~use_rgb_interleaved THEN 3 ELSE 1

\* total_pixels (pixels_per_channel in the interleaved layout)
TotalPixels(data_with_header, color) ==
    IF color THEN (Len(data_with_header) + 3 - 1) \div 3
    ELSE Len(data_with_header)

\* the width without the limit of max_width
GridWidth_Unclamped(data_with_header, color, use_rgb_interleaved) == TotalPixels(data_with_header, color)

GridWidth(data_with_header, color, use_rgb_interleaved) ==
    IF color /\ use_rgb_interleaved THEN TotalPixels(data_with_header, color)
    ELSE Min(max_width, TotalPixels(data_with_header, color))

\* the height with the row count rounded down
GridHeight_Floor(data_with_header, color, use_rgb_interleaved) ==
    IF color /\ use_rgb_interleaved THEN 3
    ELSE TotalPixels(data_with_header, color)
           \div GridWidth(data_with_header, color, use_rgb_interleaved)

GridHeight(data_with_header, color, use_rgb_interleaved) ==
    IF color /\ use_rgb_interleaved THEN 3
    ELSE LET width == GridWidth(data_with_header, color, use_rgb_interleaved)
         IN (TotalPixels(data_with_header, color) + width - 1) \div width

\* the rows of the pixel grid, before filtering
GridRows(data_with_header, color, use_rgb_interleaved) ==
    LET width  == GridWidth(data_with_header, color, use_rgb_interleaved)
        height == GridHeight(data_with_header, color, use_rgb_interleaved)
        bytes_per_pixel == BytesPerPixel(color, use_rgb_interleaved)
    IN IF color /\ use_rgb_interleaved
       THEN [c \in 1..3 |-> Slice(ChannelOf(data_with_header, width, c - 1), 0, width)]
       ELSE LET pixels == PadPixels(data_with_header, width * height * bytes_per_pixel)
            IN [r \in 1..height |->
                   Slice(pixels, (r - 1) * width * bytes_per_pixel,
                         Min((r - 1) * width * bytes_per_pixel + width * bytes_per_pixel,
                             Len(pixels)))]

\* the chunks around the filtered rows: raw_data is their concatenation
BuildContainer(rows, width, height, color_type, results) ==
    [png_data |-> png_signature
                    \o Chunk(IHDR, IhdrData(width, height, color_type))
                    \o Chunk(IDAT, zlib_compress(
                           Concat([i \in 1..Len(results) |-> results[i].best_filtered])).bytes)
                    \o Chunk(IEND, << >>),
     width |-> width, height |-> height, rows |-> rows,
     filters |-> [i \in 1..Len(results) |-> results[i].best_type],
     raw_data |-> Concat([i \in 1..Len(results) |-> results[i].best_filtered])]

\* the row loop over the grid and the container built from its results
FilterAndBuild(rows, width, height, color_type) ==
    BuildContainer(rows, width, height, color_type, FilterRows(rows, 1, << >>))

\* the part of bytes_to_png_data after data_with_header is built: the grid,
\* the filtered rows and the container
PackAndBuild(data_with_header, color, use_rgb_interleaved) ==
    FilterAndBuild(GridRows(data_with_header, color, use_rgb_interleaved),
                   GridWidth(data_with_header, color, use_rgb_interleaved),
                   GridHeight(data_with_header, color, use_rgb_interleaved),
                   IF color /\ ~use_rgb_interleaved THEN 2 ELSE 0)

\* the return of bytes_to_png_data, with the function's local values
EncodeReturn(negotiated, checksum, original_length, data_with_header, built) ==
    [ok |-> TRUE, png_data |-> built.png_data, width |-> built.width,
     height |-> built.height,
     compressed_audio |-> negotiated.best_data,
     compression_type |-> negotiated.best_type,
     checksum |-> checksum, original_length |-> original_length,
     data_with_header |-> data_with_header, rows |-> built.rows,
     filters |-> built.filters, raw_data |-> built.raw_data]

\* bytes_to_png_data from the framing on; header + None raises when the
\* negotiator returned no data
FrameAndPack(negotiated, checksum, original_length, data_with_header, color, use_rgb_interleaved) ==
    IF negotiated.is_none
    THEN [ok |-> FALSE, png_data |-> << >>, width |-> 0, height |-> 0,
          compressed_audio |-> << >>, compression_type |-> negotiated.best_type,
          checksum |-> checksum, original_length |-> original_length,
          data_with_header |-> << >>, rows |-> << >>, filters |-> << >>,
          raw_data |-> << >>]
    ELSE EncodeReturn(negotiated, checksum, original_length, data_with_header,
                      PackAndBuild(data_with_header, color, use_rgb_interleaved))

\* bytes_to_png_data from the negotiator's result on
EncodeNegotiated(audio_data, negotiated, checksum, color, use_rgb_interleaved) ==
    FrameAndPack(negotiated, checksum, Len(audio_data),
                 FramePayload(Len(audio_data), checksum, color, negotiated.best_type,
                              use_rgb_interleaved, negotiated.best_data),
                 color, use_rgb_interleaved)

\* bytes_to_png_data after the delta step: audio_data is the rebound name
EncodeAudio(audio_data, color, file_type, use_rgb_interleaved, raising) ==
    EncodeNegotiated(audio_data,
                     compress_with_best_algorithm(audio_data, file_type, raising),
                     crc32(audio_data), color, use_rgb_interleaved)

\* bytes_to_png_data: the returned (png_data, (width, height)) together with
\* the function's local values; ok = FALSE when the call raises
bytes_to_png_data(input_data, color_arg, file_type_arg, interleaved_arg, raising_now) ==
    EncodeAudio(IF file_type_arg = "wav"
                THEN apply_delta_encoding_optimized(input_data)
                ELSE input_data,
                color_arg, file_type_arg, interleaved_arg, raising_now)

(***************************************************************************)
(* Decoder: manual_png_decode                                              *)
(***************************************************************************)
SatMul(a, b) ==
    IF a = 0 \/ b = 0 THEN 0
    ELSE IF a > Huge \div b THEN Huge ELSE a * b

\* the outcome of a decode call: kind "ok" with the returned bytes, or kind
\* "error" with the exception raised; the other fields are the call's local
\* values at that point (reached = FALSE before the header was unpacked)
DecodeRaise(error) ==
    [kind |-> "error", error |-> error, bytes |-> << >>, reached |-> FALSE,
     data |-> << >>, length |-> 0, checksum |-> << >>, compression_type |-> 0,
     compressed_audio |-> << >>, decompressor |-> "unreached",
     delta_reversed |-> FALSE]

\* bytes_per_pixel chosen from the IHDR colour type
DecodeBytesPerPixel(color_type) ==
    CASE color_type = 0 -> 1
      [] color_type = 2 -> 3
      [] color_type = 4 -> 2
      [] color_type = 6 -> 4
      [] OTHER -> 1

\* distance between the bytes the inner loop reads from a row
DecodeStride(color_type) ==
    CASE color_type = 2 -> 3
      [] color_type = 6 -> 4
      [] OTHER -> 1

\* row_data of row i (0-based): the row's bytes after its filter byte
DecodeRowData(raw_data, i, expected_row_size) ==
    LET row_start == SatMul(i, expected_row_size + 1)
    IN Slice(raw_data, row_start + 1, row_start + 1 + expected_row_size)

\* TRUE when the inner loop over range(width) reads inside row_data
DecodeRowReadable(row_data, width, color_type) ==
    width = 0 \/ SatMul(width - 1, DecodeStride(color_type)) < Len(row_data)

\* the bytes the inner loop appends to data for one row
DecodeRow(row_data, width, color_type) ==
    [j \in 1..width |-> row_data[(j - 1) * DecodeStride(color_type) + 1]]

\* the length check left out
LengthMatches_Unchecked(audio_data, length) == TRUE

\* the length check before the return
LengthMatches(audio_data, length) == Len(audio_data) = length

\* the checksum check before the return
ChecksumMatches(audio_data, checksum) == crc32(audio_data) = checksum

\* the dispatch on the recorded compression id: the decompressor called
\* ("none" when the body is taken as it is)
Dispatch(compression_type) ==
    IF compression_type = 255 THEN "none"
    ELSE IF compression_type = 1
         THEN IF HAS_BROTLI THEN "brotli" ELSE "unavailable"
         ELSE "zlib"

\* the check with a bound one byte too small
HeaderTooShort_Late(data) == Len(data) < HeaderSize - 1

\* the check made before the header is unpacked: len(data) < 15
HeaderTooShort(data) == Len(data) < HeaderSize

\* the header and payload part of the IDAT branch, from the unpacked data on
DecodePayload(data) ==
    IF HeaderTooShort(data)
    THEN [DecodeRaise("ValueError: header too short") EXCEPT !.data = data]
    ELSE
    LET length == UnpackLE64(Slice(data, 0, 8))
        checksum == Slice(data, 8, 12)
        compression_type == At(data, 13)
        compressed_audio == Slice(data, 15, 15 + length)
        decompressor == Dispatch(compression_type)
        decompressed == CASE decompressor = "none" -> Returned(compressed_audio)
                          [] decompressor = "brotli" -> brotli_decompress(compressed_audio)
                          [] decompressor = "zlib" -> zlib_decompress(compressed_audio)
                          [] OTHER -> Raised
        delta_reversed == Len(decompressed.bytes) > length
        audio_data == Slice(IF delta_reversed
                            THEN apply_delta_decoding(decompressed.bytes)
                            ELSE decompressed.bytes, 0, length)
        locals == [DecodeRaise("") EXCEPT
                      !.reached = TRUE, !.data = data, !.length = length,
                      !.checksum = checksum, !.compression_type = compression_type,
                      !.compressed_audio = compressed_audio,
                      !.decompressor = decompressor]
    IN IF decompressor = "unavailable"
       THEN [locals EXCEPT !.error = "ValueError: brotli unavailable"]
       ELSE IF ~decompressed.ok
       THEN [locals EXCEPT !.error = IF decompressor = "brotli"
                                     THEN "brotli.error" ELSE "zlib.error"]
       ELSE IF ~LengthMatches(audio_data, length)
       THEN [locals EXCEPT !.error = "ValueError: length mismatch",
                           !.delta_reversed = delta_reversed]
       ELSE IF ~ChecksumMatches(audio_data, checksum)
       THEN [locals EXCEPT !.error = "ValueError: checksum mismatch",
                           !.delta_reversed = delta_reversed]
       ELSE [locals EXCEPT !.kind = "ok", !.bytes = audio_data,
                           !.delta_reversed = delta_reversed]

\* the IDAT branch of the chunk loop
DecodeIdat(png_data, pos, chunk_length, width, height, color_type) ==
    LET inflated == zlib_decompress(Slice(png_data, pos + 8, pos + 8 + chunk_length))
        raw_data == inflated.bytes
        expected_row_size == SatMul(width, DecodeBytesPerPixel(color_type))
        \* a row that starts at or after the end of raw_data is empty, so the
        \* rows up to that one decide whether the loop raises
        rows == IF width = 0 THEN 0 ELSE Min(height, Len(raw_data) + 1)
        readable == \A i \in 0..(rows - 1) :
                       DecodeRowReadable(DecodeRowData(raw_data, i, expected_row_size),
                                         width, color_type)
    IN IF ~inflated.ok THEN DecodeRaise("zlib.error")
       ELSE IF ~readable THEN DecodeRaise("IndexError")
       ELSE DecodePayload(
                Concat([i \in 1..rows |->
                          DecodeRow(DecodeRowData(raw_data, i - 1, expected_row_size),
                                    width, color_type)]))

\* the read position moved past the chunk by 12 bytes only
SkipUnknown_Fixed(pos, chunk_length) == pos + 12

\* the read position left where it is
SkipUnknown_Stuck(pos, chunk_length) == pos

\* the read position after a chunk of another type: pos += 12 + chunk_length
SkipUnknown(pos, chunk_length) == pos + 12 + chunk_length

RECURSIVE ChunkLoop(_, _, _, _, _, _)
\* the while loop over the chunks, from read position pos
ChunkLoop(png_data, pos, width, height, bit_depth, color_type) ==
    IF pos >= Len(png_data) THEN DecodeRaise("ValueError: IDAT not found")
    ELSE IF Len(png_data) - pos < 4 THEN DecodeRaise("struct.error")
    ELSE
    LET chunk_length == UnpackBE32(Slice(png_data, pos, pos + 4))
        chunk_type == Slice(png_data, pos + 4, pos + 8)
    IN IF chunk_type = IHDR
       THEN IF Len(png_data) < pos + 16 THEN DecodeRaise("struct.error")
            ELSE IF Len(png_data) < pos + 18 THEN DecodeRaise("IndexError")
            ELSE ChunkLoop(png_data, pos + 12 + chunk_length,
                           UnpackBE32(Slice(png_data, pos + 8, pos + 12)),
                           UnpackBE32(Slice(png_data, pos + 12, pos + 16)),
                           At(png_data, pos + 16), At(png_data, pos + 17))
       ELSE IF chunk_type = IDAT
       THEN DecodeIdat(png_data, pos, chunk_length, width, height, color_type)
       ELSE IF chunk_type = IEND
       THEN DecodeRaise("ValueError: IDAT not found")
       ELSE ChunkLoop(png_data, SkipUnknown(pos, chunk_length),
                      width, height, bit_depth, color_type)

\* the decoder without the signature comparison
manual_png_decode_NoSignature(png_data) == ChunkLoop(png_data, 8, 0, 0, 0, 0)

\* manual_png_decode
manual_png_decode(png_data) ==
    IF Slice(png_data, 0, 8) # png_signature
    THEN DecodeRaise("ValueError: bad signature")
    ELSE ChunkLoop(png_data, 8, 0, 0, 0, 0)

(***************************************************************************)
(* Decoder with the image library: png_data_to_bytes.  The library (pypng) *)
(* is outside the repository; png.Reader(bytes=...).read_flat() is         *)
(* modelled by what it does with an 8-bit non-interlaced image: it checks  *)
(* the signature and every chunk's CRC, wants IHDR first, inflates the     *)
(* IDAT data, undoes each row's filter and returns width, height and the   *)
(* pixel values of all rows in one flat array, without filter bytes.  Any  *)
(* other image makes the stand-in raise.                                   *)
(***************************************************************************)
LibraryRaised ==
    [ok |-> FALSE, width |-> 0, height |-> 0, pixels |-> << >>,
     greyscale |-> TRUE, alpha |-> FALSE]

\* channels per pixel of an IHDR colour type
LibraryPlanes(color_type) ==
    CASE color_type = 0 -> 1
      [] color_type = 2 -> 3
      [] color_type = 4 -> 2
      [] OTHER -> 4

RECURSIVE LibraryUnfilter(_, _, _, _, _, _)
\* the pixel values of one row: each byte plus its predictor, the left
\* neighbour being the reconstructed byte one pixel (bpp bytes) back
LibraryUnfilter(ft, row, prev, bpp, i, recon) ==
    IF i > Len(row) THEN recon
    ELSE LET a == IF i > bpp THEN recon[i - bpp] ELSE 0
             b == IF i <= Len(prev) THEN prev[i] ELSE 0
             c == IF i > bpp /\ i - bpp <= Len(prev) THEN prev[i - bpp] ELSE 0
             pred == CASE ft = 0 -> 0
                       [] ft = 1 -> a
                       [] ft = 2 -> b
                       [] ft = 3 -> (a + b) \div 2
                       [] OTHER -> PaethPredictor(a, b, c)
         IN LibraryUnfilter(ft, row, prev, bpp, i + 1,
                            Append(recon, (row[i] + pred) % 256))

RECURSIVE LibraryRows(_, _, _, _, _, _, _)
\* the flat pixel array of the rows i..height-1 appended to pixels
LibraryRows(raw, stride, bpp, i, height, prev, pixels) ==
    IF i = height THEN pixels
    ELSE LET row == LibraryUnfilter(raw[i * (stride + 1) + 1],
                                    Slice(raw, i * (stride + 1) + 1,
                                          (i + 1) * (stride + 1)),
                                    prev, bpp, 1, << >>)
         IN LibraryRows(raw, stride, bpp, i + 1, height, row, pixels \o row)

\* the image of a checked IHDR and the concatenated IDAT data
LibraryImage(ihdr, idat) ==
    LET width == UnpackBE32(Slice(ihdr, 0, 4))
        height == UnpackBE32(Slice(ihdr, 4, 8))
        color_type == At(ihdr, 9)
        planes == LibraryPlanes(At(ihdr, 9))
        inflated == zlib_decompress(idat)
        raw == inflated.bytes
    IN IF \/ width = 0 \/ height = 0 \/ width >= Huge \/ height >= Huge
          \/ At(ihdr, 8) # 8 \/ color_type \notin {0, 2, 4, 6}
          \/ Slice(ihdr, 10, 13) # << 0, 0, 0 >>
       THEN LibraryRaised
       ELSE IF ~inflated.ok \/ Len(raw) # SatMul(height, SatMul(width, planes) + 1)
       THEN LibraryRaised
       ELSE IF \E i \in 0..(height - 1) : raw[i * (width * planes + 1) + 1] > 4
       THEN LibraryRaised
       ELSE [ok |-> TRUE, width |-> width, height |-> height,
             pixels |-> LibraryRows(raw, width * planes, planes, 0, height,
                                    << >>, << >>),
             greyscale |-> color_type \in {0, 4},
             alpha |-> color_type \in {4, 6}]

RECURSIVE LibraryChunks(_, _, _, _)
\* the library's walk over the chunks from read position pos
LibraryChunks(png_data, pos, ihdr, idat) ==
    IF Len(png_data) - pos < 12 THEN LibraryRaised
    ELSE
    LET length == UnpackBE32(Slice(png_data, pos, pos + 4))
        type == Slice(png_data, pos + 4, pos + 8)
        data == Slice(png_data, pos + 8, pos + 8 + length)
    IN IF length > Len(png_data) - pos - 12 THEN LibraryRaised
       ELSE IF Slice(png_data, pos + 8 + length, pos + 12 + length)
                  # Reverse(crc32(type \o data))
       THEN LibraryRaised
       ELSE IF (pos = 8) # (type = IHDR) THEN LibraryRaised
       ELSE IF type = IHDR
       THEN IF length # 13 THEN LibraryRaised
            ELSE LibraryChunks(png_data, pos + 12 + length, data, idat)
       ELSE IF type = IDAT
       THEN LibraryChunks(png_data, pos + 12 + length, ihdr, idat \o data)
       ELSE IF type = IEND
       THEN IF idat = << >> THEN LibraryRaised ELSE LibraryImage(ihdr, idat)
       ELSE LibraryChunks(png_data, pos + 12 + length, ihdr, idat)

\* png.Reader(bytes=png_data).read_flat()
read_flat(png_data) ==
    IF Slice(png_data, 0, 8) # png_signature THEN LibraryRaised
    ELSE LibraryChunks(png_data, 8, << >>, << >>)

\* bytes_per_pixel chosen from the library's info
LibraryBytesPerPixel(greyscale, alpha) ==
    IF alpha THEN (IF greyscale THEN 2 ELSE 4)
    ELSE (IF greyscale THEN 1 ELSE 3)

\* row of the loop over range(height): pixel_data[row_start + 1:row_end]
LibraryRow(pixel_data, i, row_size) ==
    Slice(pixel_data, i * (row_size + 1) + 1,
          Min(i * (row_size + 1) + 1 + row_size, Len(pixel_data)))

\* TRUE when the loop over range(width) reads inside every row
LibraryReadable(image, bytes_per_pixel) ==
    image.greyscale \/
        \A i \in 0..(image.height - 1) :
            (image.width - 1) * bytes_per_pixel
                < Len(LibraryRow(image.pixels, i, image.width * bytes_per_pixel))

\* the bytes the loop appends to data for row i
LibraryRowBytes(image, i, bytes_per_pixel) ==
    IF image.greyscale
    THEN LibraryRow(image.pixels, i, image.width * bytes_per_pixel)
    ELSE [j \in 1..image.width |->
            LibraryRow(image.pixels, i, image.width * bytes_per_pixel)
                [(j - 1) * bytes_per_pixel + 1]]

\* the try block of png_data_to_bytes from the image on; an outcome of kind
\* "error" is an exception raised inside the block
LibraryDecode(image, bytes_per_pixel) ==
    IF ~image.ok THEN DecodeRaise("png.Error")
    ELSE IF ~LibraryReadable(image, bytes_per_pixel) THEN DecodeRaise("IndexError")
    ELSE DecodePayload(Concat([i \in 1..image.height |->
                                  LibraryRowBytes(image, i - 1, bytes_per_pixel)]))

\* the except arm: an exception of the try block hands over to
\* manual_png_decode
LibraryOrManual(attempt, png_data) ==
    IF attempt.kind = "ok" THEN attempt ELSE manual_png_decode(png_data)

\* the library's image handed to the try block
LibraryAttempt(image) ==
    LibraryDecode(image, LibraryBytesPerPixel(image.greyscale, image.alpha))

\* png_data_to_bytes with the library installed
png_data_to_bytes(png_data) ==
    LibraryOrManual(LibraryAttempt(read_flat(png_data)), png_data)

(***************************************************************************)
(* The codec as a state machine: a caller picks a payload and the encoder  *)
(* arguments, encodes, and hands the container to the decoder.             *)
(***************************************************************************)
VARIABLES
    input,                \* the caller's payload (audio_data on entry)
    color,                \* argument color
    file_type,            \* argument file_type
    use_rgb_interleaved,  \* argument use_rgb_interleaved
    raising,              \* backends whose compress call raises in this run
    pc,                   \* "start", "encoded", "encode_raised", "decoded"
    enc,                  \* outcome of bytes_to_png_data
    png,                  \* the container handed to the decoder
    foreign,              \* TRUE when png was written by another writer
    edit,                 \* what was done to the container after encoding
    dec,                  \* outcome of manual_png_decode
    lib,                  \* outcome of png_data_to_bytes with the library
    row_data,             \* row filter specification: the row
    prev_row,             \* row filter specification: the previous row
    filter_type,          \* row filter specification: the filter id
    fpc,                  \* "idle", "start", "filtered", "searched", "unpacked"
    filtered,             \* result of apply_png_filter
    best,                 \* result of find_best_filter
    unpacked,             \* the decoder's reading of the filtered row
    framed,               \* grid specification: data_with_header
    gpc,                  \* "idle", "start", "packed"
    grid,                 \* width, height and rows of the pixel grid
    delta_data,           \* delta specification: the byte string
    dpc,                  \* "idle", "start", "encoded", "decoded"
    delta_encoded,        \* result of apply_delta_encoding_optimized
    delta_decoded,        \* result of apply_delta_decoding on it
    walk,                 \* chunk walk specification: the locals of the loop
    found,                \* checksum.py: the files rglob yields, in order
    directory_map,        \* checksum.py: directory path -> file entries
    tree,                 \* checksum.py: result of build_directory_tree
    tpc,                  \* "idle", "start", "scanned", "built"
    log_file,             \* checksum.py: log.json on disk
    encoding,             \* checksum.py: the platform's default text encoding
    all_logs,             \* checksum.py: the list read_log returned
    lpc                   \* "idle", "start", "read", "written"

codecVars == << input, color, file_type, use_rgb_interleaved, raising, pc, enc,
                png, foreign, edit, dec, lib >>

filterVars == << row_data, prev_row, filter_type, fpc, filtered, best, unpacked >>

gridVars == << framed, gpc, grid >>

deltaVars == << delta_data, dpc, delta_encoded, delta_decoded >>

walkVars == << walk >>

treeVars == << found, directory_map, tree, tpc >>

logVars == << log_file, encoding, all_logs, lpc >>

vars == << input, color, file_type, use_rgb_interleaved, raising, pc, enc, png,
           foreign, edit, dec, lib, row_data, prev_row, filter_type, fpc, filtered, best,
           unpacked, framed, gpc, grid, delta_data, dpc, delta_encoded,
           delta_decoded, walk, found, directory_map, tree, tpc, log_file,
           encoding, all_logs, lpc >>

RECURSIVE SeqsUpTo(_, _)
\* all sequences over S of length at most n
SeqsUpTo(S, n) ==
    IF n = 0 THEN { << >> }
    ELSE LET shorter == SeqsUpTo(S, n - 1)
         IN shorter \cup { Append(s, v) : s \in shorter, v \in S }

\* n equal bytes
Constant(v, n) == [i \in 1..n |-> v]

\* 0, 1, 2, ...
Ramp(n) == [i \in 1..n |-> (i - 1) % 256]

\* 0, 1, 3, 6, 10, ...: the delta encoding of it is a ramp
Triangular(n) == [i \in 1..n |-> ((i * (i - 1)) \div 2) % 256]

\* the payloads of the model
Payloads ==
    SeqsUpTo(InputBytes, MaxLen)
      \cup { Constant(255, n) : n \in 1..MaxRun }
      \cup { Ramp(n) : n \in 1..MaxRun }
      \cup { Triangular(n) : n \in 1..MaxRun }

NotEncoded ==
    [ok |-> FALSE, png_data |-> << >>, width |-> 0, height |-> 0,
     compressed_audio |-> << >>, compression_type |-> 0, checksum |-> << >>,
     original_length |-> 0, data_with_header |-> << >>, rows |-> << >>,
     filters |-> << >>, raw_data |-> << >>]

NotDecoded == DecodeRaise("not called")

NoBest == [best_type |-> 0, best_size |-> Huge, best_filtered |-> << >>,
           found |-> FALSE]

CodecIdle ==
    /\ input = << >> /\ color = FALSE /\ file_type = "mp3"
    /\ use_rgb_interleaved = FALSE /\ raising = {} /\ pc = "idle"
    /\ enc = NotEncoded /\ png = << >> /\ foreign = FALSE /\ dec = NotDecoded
    /\ lib = NotDecoded
    /\ edit = "none"

NoGrid == [width |-> 0, height |-> 0, rows |-> << >>, raw_data |-> << >>]

GridIdle == framed = << >> /\ gpc = "idle" /\ grid = NoGrid

\* the locals of the chunk walk before a call
NoWalk ==
    [pc |-> "idle", pos |-> 0, width |-> 0, height |-> 0, bit_depth |-> 0,
     color_type |-> 0, exit |-> "none"]

WalkIdle == walk = NoWalk

NoTree == [files |-> << >>, subdirectories |-> << >>]

TreeIdle ==
    /\ found = << >> /\ directory_map = << >> /\ tree = NoTree /\ tpc = "idle"

NoFile == [kind |-> "missing", entries |-> << >>]

LogIdle ==
    /\ log_file = NoFile /\ encoding = "utf-8" /\ all_logs = << >>
    /\ lpc = "idle"

\* the variables of the other specifications at rest
OthersIdle == WalkIdle /\ TreeIdle /\ LogIdle

DeltaIdle ==
    /\ delta_data = << >> /\ dpc = "idle" /\ delta_encoded = << >>
    /\ delta_decoded = << >>

FilterIdle ==
    /\ row_data = << >> /\ prev_row = << >> /\ filter_type = 0 /\ fpc = "idle"
    /\ filtered = << >> /\ best = NoBest /\ unpacked = << >>

Init ==
    /\ input \in Payloads
    /\ color \in BOOLEAN
    /\ file_type \in {"mp3", "wav"}
    /\ use_rgb_interleaved \in BOOLEAN
    /\ raising \in SUBSET {"brotli", "zlib"}
    /\ pc = "start"
    /\ enc = NotEncoded
    /\ png = << >>
    /\ foreign = FALSE
    /\ edit = "none"
    /\ dec = NotDecoded
    /\ lib = NotDecoded
    /\ FilterIdle
    /\ GridIdle
    /\ DeltaIdle
    /\ OthersIdle

\* the caller's view of a call of bytes_to_png_data with outcome r
Called(r) ==
    /\ enc' = r
    /\ png' = r.png_data
    /\ pc' = IF r.ok THEN "encoded" ELSE "encode_raised"

\* a call of bytes_to_png_data, which returns or raises
Encode ==
    /\ pc = "start"
    /\ Called(bytes_to_png_data(input, color, file_type, use_rgb_interleaved, raising))
    /\ UNCHANGED << input, color, file_type, use_rgb_interleaved, raising, foreign,
                    edit, dec, lib >>
    /\ UNCHANGED filterVars
    /\ UNCHANGED gridVars
    /\ UNCHANGED deltaVars
    /\ UNCHANGED << walkVars, treeVars, logVars >>

\* offsets into the framed payload at which a foreign container differs: the
\* low byte of the length, the first checksum byte, the compression id and
\* the first byte of the body
ForeignOffsets == {0, 8, 13, 15}

\* manual_png_decode accepts any byte string: instead of the encoder's
\* container it is handed a well-formed container of another writer, whose
\* framed payload differs from the encoder's in the byte at offset k
ForeignContainer ==
    /\ pc = "encoded"
    /\ ~foreign
    /\ \E k \in ForeignOffsets :
          /\ k < Len(enc.data_with_header)
          /\ png' = PackAndBuild([enc.data_with_header EXCEPT ![k + 1] = (@ + 1) % 256],
                                 color, use_rgb_interleaved).png_data
    /\ foreign' = TRUE
    /\ UNCHANGED << input, color, file_type, use_rgb_interleaved, raising, pc, enc,
                    edit, dec, lib >>
    /\ UNCHANGED filterVars
    /\ UNCHANGED gridVars
    /\ UNCHANGED deltaVars
    /\ UNCHANGED << walkVars, treeVars, logVars >>

\* a call of manual_png_decode on the container
Decode ==
    /\ pc = "encoded"
    /\ dec' = manual_png_decode(png)
    /\ pc' = "decoded"
    /\ UNCHANGED << input, color, file_type, use_rgb_interleaved, raising, enc, png,
                    foreign, edit, lib >>
    /\ UNCHANGED filterVars
    /\ UNCHANGED gridVars
    /\ UNCHANGED deltaVars
    /\ UNCHANGED << walkVars, treeVars, logVars >>

Next == Encode \/ ForeignContainer \/ Decode

Spec == Init /\ [][Next]_vars

(***************************************************************************)
(* The decoder on containers it did not get from the encoder unchanged:    *)
(* manual_png_decode accepts any byte string, so between encoding and      *)
(* decoding the container may be damaged, cut, reordered or rewritten.     *)
(* edit names what was done.  The encoder's container is the signature, a  *)
(* 25-byte IHDR chunk at offset 8, the IDAT chunk at offset 33 and a       *)
(* 12-byte IEND chunk at the end.                                          *)
(***************************************************************************)
\* the byte with its lowest bit flipped
FlipLowBit(b) == IF b % 2 = 0 THEN b + 1 ELSE b - 1

\* the byte string with one bit of the byte at 0-based offset i flipped
FlipAt(s, i) == [s EXCEPT ![i + 1] = FlipLowBit(@)]

IhdrChunkOf(png_data) == Slice(png_data, 8, 33)

IdatChunkOf(png_data) == Slice(png_data, 33, Len(png_data) - 12)

IendChunkOf(png_data) == Slice(png_data, Len(png_data) - 12, Len(png_data))

\* the declared length of the IDAT chunk of the encoder's container
IdatLength(png_data) == UnpackBE32(Slice(png_data, 33, 37))

\* an edit applies to the container the encoder returned
CanEdit == pc = "encoded" /\ ~foreign /\ edit = "none"

\* the container is replaced and the edit recorded
Edited(kind, container) ==
    /\ png' = container
    /\ edit' = kind
    /\ UNCHANGED << input, color, file_type, use_rgb_interleaved, raising, pc, enc,
                    foreign, dec, lib >>
    /\ UNCHANGED filterVars
    /\ UNCHANGED gridVars
    /\ UNCHANGED deltaVars
    /\ UNCHANGED << walkVars, treeVars, logVars >>

\* one bit of the IDAT chunk's CRC trailer is flipped
TamperTrailer ==
    /\ CanEdit
    /\ \E k \in 0..3 : Edited("trailer", FlipAt(png, Len(png) - 16 + k))

\* one bit of the IDAT chunk's data is flipped, the trailer left as it was
TamperBody ==
    /\ CanEdit
    /\ \E k \in 0..(IdatLength(png) - 1) : Edited("body", FlipAt(png, 41 + k))

\* lengths to which the container is cut inside its signature
SignaturePrefixes == {0, 4, 7}

\* the container is cut inside the signature, or a signature byte differs
BadSignature ==
    /\ CanEdit
    /\ \/ \E k \in SignaturePrefixes : Edited("signature", Slice(png, 0, k))
       \/ \E j \in 0..7 : Edited("signature", FlipAt(png, j))

\* the errors the decoder raises for a chunk it did not find
MissingChunkErrors == { "ValueError: IDAT not found" }

\* the edits that leave the container without a mandatory chunk in place
DropEdits == { "no_ihdr", "no_idat", "no_idat_no_iend", "idat_first" }

\* the container with a mandatory chunk left out or out of place
Dropped(kind, png_data) ==
    CASE kind = "no_ihdr" ->
             png_signature \o IdatChunkOf(png_data) \o IendChunkOf(png_data)
      [] kind = "no_idat" ->
             png_signature \o IhdrChunkOf(png_data) \o IendChunkOf(png_data)
      [] kind = "no_idat_no_iend" ->
             png_signature \o IhdrChunkOf(png_data)
      [] OTHER ->
             png_signature \o IdatChunkOf(png_data) \o IhdrChunkOf(png_data)
                 \o IendChunkOf(png_data)

\* a writer leaves out the IHDR or the IDAT chunk, or puts IDAT first
DropChunk ==
    /\ CanEdit
    /\ \E kind \in DropEdits : Edited(kind, Dropped(kind, png))

\* the type tag of a chunk the decoder does not know
tEXt == << 116, 69, 88, 116 >>

\* chunk data of the unknown chunks: none, three bytes, and the IDAT tag
UnknownData == { << >>, << 1, 2, 3 >>, IDAT }

\* n well-formed chunks of unknown type with the given data
UnknownChunks(n, data) == Concat([i \in 1..n |-> Chunk(tEXt, data)])

\* the container with the chunks put before IHDR or between IHDR and IDAT
WithUnknown(png_data, chunks, after_ihdr) ==
    IF after_ihdr
    THEN Slice(png_data, 0, 33) \o chunks \o Slice(png_data, 33, Len(png_data))
    ELSE png_signature \o chunks \o Slice(png_data, 8, Len(png_data))

\* a writer adds chunks of unknown type before the IDAT chunk
InsertUnknown ==
    /\ CanEdit
    /\ \E n \in 1..MaxUnknown, data \in UnknownData, after_ihdr \in BOOLEAN :
          Edited("unknown", WithUnknown(png, UnknownChunks(n, data), after_ihdr))

\* the edits of the IHDR values: field offset in the chunk data and new value
\* (bit depth 16, colour type 3 (palette), width 0 in its low byte)
IhdrEdits == { "bit_depth", "color_type", "width" }

\* the 13 data bytes of the container's IHDR chunk
IhdrDataOf(png_data) == Slice(png_data, 16, 29)

\* the IHDR data with one unsupported value
UnsupportedIhdr(kind, data) ==
    CASE kind = "bit_depth" -> [data EXCEPT ![9] = 16]
      [] kind = "color_type" -> [data EXCEPT ![10] = 3]
      [] OTHER -> Zeros(4) \o Slice(data, 4, 13)

\* a writer's well-formed container whose IHDR carries an unsupported value
TamperIhdr ==
    /\ CanEdit
    /\ \E kind \in IhdrEdits :
          Edited(kind, png_signature
                         \o Chunk(IHDR, UnsupportedIhdr(kind, IhdrDataOf(png)))
                         \o Slice(png, 33, Len(png)))

\* numbers of pixels of a writer's container that stops early
ShortLengths == {0, 1, HeaderSize - 1, HeaderSize}

\* a grayscale container of one unfiltered row holding the given bytes
SingleRow(bytes) ==
    png_signature \o Chunk(IHDR, IhdrData(Len(bytes), 1, 0))
                  \o Chunk(IDAT, zlib_compress(<< 0 >> \o bytes).bytes)
                  \o Chunk(IEND, << >>)

\* a writer's container whose pixel data stops after k bytes of the framed
\* payload
ShortPayload ==
    /\ CanEdit
    /\ \E k \in ShortLengths :
          Edited("short", SingleRow(Slice(enc.data_with_header, 0, k)))

\* a writer's single-row container whose pixels are one byte followed by
\* the encoder's framed payload
ShiftedRow ==
    /\ CanEdit
    /\ \E first \in {0, 255} :
          Edited("shifted", SingleRow(<< first >> \o enc.data_with_header))

\* a call of png_data_to_bytes, with the library installed, on the container
\* manual_png_decode was called on
DecodeLibrary ==
    /\ pc = "decoded"
    /\ lib = NotDecoded
    /\ lib' = png_data_to_bytes(png)
    /\ UNCHANGED << input, color, file_type, use_rgb_interleaved, raising, pc, enc,
                    png, foreign, edit, dec >>
    /\ UNCHANGED filterVars
    /\ UNCHANGED gridVars
    /\ UNCHANGED deltaVars
    /\ UNCHANGED << walkVars, treeVars, logVars >>

InitContainer == Init /\ raising = {}

NextContainer ==
    \/ Encode \/ TamperTrailer \/ TamperBody \/ BadSignature \/ DropChunk
    \/ InsertUnknown \/ TamperIhdr \/ ShortPayload \/ ShiftedRow \/ Decode
    \/ DecodeLibrary

SpecContainer == InitContainer /\ [][NextContainer]_vars

(***************************************************************************)
(* The row filters as a state machine: a row, a previous row of the same   *)
(* length (or none) and a filter id are picked; the encoder filters the    *)
(* row, and the decoder's row loop reads the filtered row back.            *)
(***************************************************************************)
RowPairs ==
    { << r, p >> \in SeqsUpTo(FilterBytes, MaxRow) \X SeqsUpTo(FilterBytes, MaxRow) :
         Len(p) = Len(r) \/ p = << >> }

InitFilter ==
    /\ \E rp \in RowPairs : row_data = rp[1] /\ prev_row = rp[2]
    /\ filter_type \in 0..4
    /\ fpc = "start"
    /\ filtered = << >>
    /\ best = NoBest
    /\ unpacked = << >>
    /\ CodecIdle
    /\ GridIdle
    /\ DeltaIdle
    /\ OthersIdle

\* apply_png_filter(row_data, prev_row, filter_type)
ApplyFilter ==
    /\ fpc = "start"
    /\ filtered' = apply_png_filter(row_data, prev_row, filter_type)
    /\ fpc' = "filtered"
    /\ UNCHANGED << row_data, prev_row, filter_type, best, unpacked >>
    /\ UNCHANGED codecVars
    /\ UNCHANGED gridVars
    /\ UNCHANGED deltaVars
    /\ UNCHANGED << walkVars, treeVars, logVars >>

\* find_best_filter(row_data, prev_row, lambda d: zlib.compress(d, 9))
FindBest ==
    /\ fpc = "start"
    /\ best' = find_best_filter(row_data, prev_row, "zlib")
    /\ fpc' = "searched"
    /\ UNCHANGED << row_data, prev_row, filter_type, filtered, unpacked >>
    /\ UNCHANGED codecVars
    /\ UNCHANGED gridVars
    /\ UNCHANGED deltaVars
    /\ UNCHANGED << walkVars, treeVars, logVars >>

\* the decoder's row loop on the filtered row as the only row of a
\* grayscale grid of width len(row_data)
UnpackRow ==
    /\ fpc = "filtered"
    /\ unpacked' = DecodeRow(DecodeRowData(filtered, 0, Len(row_data)),
                             Len(row_data), 0)
    /\ fpc' = "unpacked"
    /\ UNCHANGED << row_data, prev_row, filter_type, filtered, best >>
    /\ UNCHANGED codecVars
    /\ UNCHANGED gridVars
    /\ UNCHANGED deltaVars
    /\ UNCHANGED << walkVars, treeVars, logVars >>

NextFilter == ApplyFilter \/ FindBest \/ UnpackRow

SpecFilter == InitFilter /\ [][NextFilter]_vars

(***************************************************************************)
(* The pixel grid on its own: bytes_to_png_data's layout of the framed     *)
(* payload (header and compressed body) into rows, for payloads up to      *)
(* three rows long.                                                        *)
(***************************************************************************)
\* lengths of the framed payloads: the header with a short body, and the
\* lengths around one, two and three times max_width pixels in either mode
FramedLengths ==
    (HeaderSize..(HeaderSize + MaxBody))
      \cup { m * max_width + d : m \in 1..3, d \in -1..1 }
      \cup { 3 * m * max_width + d : m \in 1..2, d \in -3..3 }

\* a framed payload of n bytes, none of them zero
FramedOf(n) == [i \in 1..n |-> (i % 255) + 1]

InitGrid ==
    /\ framed \in { FramedOf(n) : n \in FramedLengths }
    /\ color \in BOOLEAN
    /\ use_rgb_interleaved \in BOOLEAN
    /\ gpc = "start"
    /\ grid = NoGrid
    /\ input = << >> /\ file_type = "mp3" /\ raising = {} /\ pc = "idle"
    /\ enc = NotEncoded /\ png = << >> /\ foreign = FALSE /\ dec = NotDecoded
    /\ lib = NotDecoded
    /\ edit = "none"
    /\ FilterIdle
    /\ DeltaIdle
    /\ OthersIdle

\* the part of bytes_to_png_data that lays data_with_header out in rows
PackGrid ==
    /\ gpc = "start"
    /\ grid' = [width |-> GridWidth(framed, color, use_rgb_interleaved),
                height |-> GridHeight(framed, color, use_rgb_interleaved),
                rows |-> GridRows(framed, color, use_rgb_interleaved),
                raw_data |-> << >>]
    /\ gpc' = "packed"
    /\ UNCHANGED framed
    /\ UNCHANGED codecVars
    /\ UNCHANGED filterVars
    /\ UNCHANGED deltaVars
    /\ UNCHANGED << walkVars, treeVars, logVars >>

\* raw_data after the row loop: the filtered rows one after the other
FilteredStream(results) ==
    Concat([i \in 1..Len(results) |-> results[i].best_filtered])

\* the row loop of bytes_to_png_data over the grid, for the framed payloads
\* with a body of at most MaxBody bytes
FilterGrid ==
    /\ gpc = "packed"
    /\ Len(framed) <= HeaderSize + MaxBody
    /\ grid' = [grid EXCEPT !.raw_data = FilteredStream(FilterRows(grid.rows, 1, << >>))]
    /\ gpc' = "filtered"
    /\ UNCHANGED framed
    /\ UNCHANGED codecVars
    /\ UNCHANGED filterVars
    /\ UNCHANGED deltaVars
    /\ UNCHANGED << walkVars, treeVars, logVars >>

NextGrid == PackGrid \/ FilterGrid

SpecGrid == InitGrid /\ [][NextGrid]_vars

(***************************************************************************)
(* The delta coding on its own: a byte string is encoded and the result    *)
(* decoded.                                                                *)
(***************************************************************************)
\* byte values the delta specification draws from: the ends of the range
\* and the values around its middle
DeltaBytes == {0, 1, 128, 255}

InitDelta ==
    /\ delta_data \in SeqsUpTo(DeltaBytes, MaxDelta)
    /\ dpc = "start"
    /\ delta_encoded = << >>
    /\ delta_decoded = << >>
    /\ CodecIdle
    /\ FilterIdle
    /\ GridIdle
    /\ OthersIdle

\* apply_delta_encoding_optimized(data)
DeltaEncode ==
    /\ dpc = "start"
    /\ delta_encoded' = apply_delta_encoding_optimized(delta_data)
    /\ dpc' = "encoded"
    /\ UNCHANGED << delta_data, delta_decoded >>
    /\ UNCHANGED << codecVars, filterVars, gridVars >>
    /\ UNCHANGED << walkVars, treeVars, logVars >>

\* apply_delta_decoding on the encoded byte string
DeltaDecode ==
    /\ dpc = "encoded"
    /\ delta_decoded' = apply_delta_decoding(delta_encoded)
    /\ dpc' = "decoded"
    /\ UNCHANGED << delta_data, delta_encoded >>
    /\ UNCHANGED << codecVars, filterVars, gridVars >>
    /\ UNCHANGED << walkVars, treeVars, logVars >>

NextDelta == DeltaEncode \/ DeltaDecode

SpecDelta == InitDelta /\ [][NextDelta]_vars

(***************************************************************************)
(* checksum.py: the scan of the target directory into directory_map and    *)
(* build_directory_tree.  A relative directory path is the sequence of its *)
(* names, << >> for '.'; a dict is the sequence of its items in insertion  *)
(* order.                                                                  *)
(***************************************************************************)
\* most files a scan finds
MaxFound == 3

\* directory names in sorted order
Names == << "a", "b", "cc" >>

\* position of a name in the sorted order of the names
NameOrder(name) == CHOOSE i \in 1..Len(Names) : Names[i] = name

\* the files a scan can come upon: relative directory, name and what
\* calculate_checksum returns for the file ("none" for None)
Files ==
    { [dir |-> << >>, name |-> "f", checksum |-> "c1"],
      [dir |-> << "a" >>, name |-> "f", checksum |-> "c2"],
      [dir |-> << "a" >>, name |-> "u", checksum |-> "none"],
      [dir |-> << "a", "b" >>, name |-> "f", checksum |-> "c3"],
      [dir |-> << "a", "b" >>, name |-> "g", checksum |-> "c4"],
      [dir |-> << "cc" >>, name |-> "g", checksum |-> "c5"],
      [dir |-> << "b", "cc", "a" >>, name |-> "f", checksum |-> "c6"] }

\* the orders in which rglob can yield up to MaxFound of the files
FoundOrders ==
    { order \in SeqsUpTo(Files, MaxFound) :
        \A i, j \in 1..Len(order) : i # j => order[i] # order[j] }

\* list(d.keys())
Keys(d) == [i \in 1..Len(d) |-> d[i].key]

\* key in d
HasKey(d, key) == \E i \in 1..Len(d) : d[i].key = key

\* d.get(key, [])
Get(d, key) ==
    IF HasKey(d, key) THEN d[CHOOSE i \in 1..Len(d) : d[i].key = key].files
    ELSE << >>

\* one pass of the loop over rglob: a file without a checksum is left out,
\* a directory gets its key with its first file
ScanFile(d, file) ==
    IF file.checksum = "none" THEN d
    ELSE [i \in 1..(IF HasKey(d, file.dir) THEN Len(d) ELSE Len(d) + 1) |->
            IF i <= Len(d) /\ d[i].key # file.dir THEN d[i]
            ELSE [key |-> file.dir,
                  files |-> Append(Get(d, file.dir),
                                   [name |-> file.name, checksum |-> file.checksum])]]

RECURSIVE ScanLoop(_, _, _)
\* the loop over rglob from the i-th file on
ScanLoop(order, i, d) ==
    IF i > Len(order) THEN d ELSE ScanLoop(order, i + 1, ScanFile(d, order[i]))

RECURSIVE NamesLen(_)
\* characters of the names of a path
NamesLen(path) ==
    IF path = << >> THEN 0 ELSE Len(Head(path)) + NamesLen(Tail(path))

\* len(key) of the path as a string: '.' or the names joined by os.sep
KeyLen(path) == IF path = << >> THEN 1 ELSE NamesLen(path) + Len(path) - 1

\* the keys no longer than key (longer = FALSE) or longer than it
KeysByLen(keys, key, longer) ==
    SelectSeq(keys, LAMBDA k : (KeyLen(k) > KeyLen(key)) = longer)

RECURSIVE SortedByLen(_)
\* sorted(keys, key=len): keys of equal length keep their order
SortedByLen(keys) ==
    IF keys = << >> THEN << >>
    ELSE LET front == SortedByLen(SubSeq(keys, 1, Len(keys) - 1))
             key == keys[Len(keys)]
         IN KeysByLen(front, key, FALSE) \o << key >> \o KeysByLen(front, key, TRUE)

\* the node of a directory before it has children
NewNode(d, full_path) ==
    [name |-> full_path[Len(full_path)], files |-> Get(d, full_path), children |-> {}]

\* children_map[full_path] = new_node
Registered(children_map, d, full_path) ==
    [path \in DOMAIN children_map \cup {full_path} |->
        IF path = full_path THEN NewNode(d, full_path) ELSE children_map[path]]

\* the node is attached to its parent if children_map knows the parent;
\* otherwise a warning is printed
LinkNode(children_map, full_path, parent_path) ==
    IF parent_path \in DOMAIN children_map
    THEN [children_map EXCEPT ![parent_path].children = @ \cup {full_path}]
    ELSE children_map

RECURSIVE TreeLoop(_, _, _, _)
\* the loop over sorted_paths from the i-th path on
TreeLoop(d, sorted_paths, i, children_map) ==
    IF i > Len(sorted_paths) THEN children_map
    ELSE IF sorted_paths[i] = << >>
    THEN TreeLoop(d, sorted_paths, i + 1, children_map)
    ELSE TreeLoop(d, sorted_paths, i + 1,
                  LinkNode(Registered(children_map, d, sorted_paths[i]),
                           sorted_paths[i],
                           SubSeq(sorted_paths[i], 1, Len(sorted_paths[i]) - 1)))

RECURSIVE SortedByName(_)
\* sorted(children, key=name) of a set of children, each a full path
SortedByName(children) ==
    IF children = {} THEN << >>
    ELSE LET first == CHOOSE c \in children :
                         \A o \in children :
                            NameOrder(c[Len(c)]) <= NameOrder(o[Len(o)])
         IN << first >> \o SortedByName(children \ {first})

RECURSIVE dict_to_list(_, _)
\* dict_to_list: children replaced by the list of subdirectories
dict_to_list(children_map, path) ==
    LET order == SortedByName(children_map[path].children)
        subdirectories == [i \in 1..Len(order) |-> dict_to_list(children_map, order[i])]
    IN IF path = << >>
       THEN [files |-> children_map[path].files, subdirectories |-> subdirectories]
       ELSE [name |-> children_map[path].name, files |-> children_map[path].files,
             subdirectories |-> subdirectories]

\* children_map = {".": root_node}
RootOnly(d) == [path \in {<< >>} |-> [files |-> Get(d, << >>), children |-> {}]]

build_directory_tree(d) ==
    dict_to_list(TreeLoop(d, SortedByLen(Keys(d)), 1, RootOnly(d)), << >>)

InitTree ==
    /\ found \in FoundOrders
    /\ directory_map = << >>
    /\ tree = NoTree
    /\ tpc = "start"
    /\ CodecIdle /\ FilterIdle /\ GridIdle /\ DeltaIdle /\ WalkIdle /\ LogIdle

\* the loop of __main__ over the files of the target directory
ScanFiles ==
    /\ tpc = "start"
    /\ directory_map' = ScanLoop(found, 1, << >>)
    /\ tpc' = "scanned"
    /\ UNCHANGED << found, tree >>
    /\ UNCHANGED << codecVars, filterVars, gridVars, deltaVars, walkVars, logVars >>

\* directory_tree = build_directory_tree(directory_map)
BuildTree ==
    /\ tpc = "scanned"
    /\ tree' = build_directory_tree(directory_map)
    /\ tpc' = "built"
    /\ UNCHANGED << found, directory_map >>
    /\ UNCHANGED << codecVars, filterVars, gridVars, deltaVars, walkVars, logVars >>

NextTree == ScanFiles \/ BuildTree

SpecTree == InitTree /\ [][NextTree]_vars

(***************************************************************************)
(* checksum.py: the log file.  log.json is missing or holds bytes; what    *)
(* the bytes are as JSON is their kind: a list, another value ("notlist")  *)
(* or no JSON text ("invalid").  A list is kept as the sequence of its     *)
(* entries, each entry as the bytes of its text; in the program an entry   *)
(* is the sequence of the code points of its text.  read_log opens the     *)
(* file in the encoding of the platform, write_log in UTF-8.               *)
(***************************************************************************)
\* most entries of a log before a run
MaxEntries == 2

\* code points of the texts: a, u with diaeresis, and the lone surrogate that
\* stands for the byte FF of a file name that is not UTF-8
Letter == 97
Umlaut == 252
Surrogate == 56575

\* whether UTF-8 encodes the code point
Encodable(cp) == cp < 55296 \/ cp > 57343

\* the UTF-8 bytes of a code point
Utf8Bytes(cp) ==
    IF cp < 128 THEN << cp >>
    ELSE IF cp < 2048 THEN << 192 + (cp \div 64), 128 + (cp % 64) >>
    ELSE << 224 + (cp \div 4096), 128 + ((cp \div 64) % 64), 128 + (cp % 64) >>

RECURSIVE Utf8Encode(_)
\* text.encode('utf-8') of a text without surrogates
Utf8Encode(text) ==
    IF text = << >> THEN << >> ELSE Utf8Bytes(Head(text)) \o Utf8Encode(Tail(text))

RECURSIVE Utf8Decode(_)
\* bytes.decode('utf-8'): ok = FALSE for UnicodeDecodeError
Utf8Decode(bytes) ==
    IF bytes = << >> THEN [ok |-> TRUE, text |-> << >>]
    ELSE LET b == Head(bytes)
             n == IF b < 128 THEN 1 ELSE IF b >= 194 /\ b < 224 THEN 2
                  ELSE IF b >= 224 /\ b < 240 THEN 3 ELSE 0
         IN IF n = 0 \/ Len(bytes) < n
               \/ \E k \in 2..n : bytes[k] < 128 \/ bytes[k] >= 192
            THEN [ok |-> FALSE, text |-> << >>]
            ELSE LET cp == IF n = 1 THEN b
                           ELSE IF n = 2 THEN (b - 192) * 64 + (bytes[2] - 128)
                           ELSE (b - 224) * 4096 + (bytes[2] - 128) * 64 + (bytes[3] - 128)
                     rest == Utf8Decode(SubSeq(bytes, n + 1, Len(bytes)))
                 IN IF ~rest.ok \/ ~Encodable(cp) THEN [ok |-> FALSE, text |-> << >>]
                    ELSE [ok |-> TRUE, text |-> << cp >> \o rest.text]

\* bytes.decode(encoding) in the encoding open() takes when none is given
DecodeText(bytes, platform) ==
    CASE platform = "utf-8" -> Utf8Decode(bytes)
      [] platform = "ascii" ->
            IF \E k \in 1..Len(bytes) : bytes[k] >= 128
            THEN [ok |-> FALSE, text |-> << >>]
            ELSE [ok |-> TRUE, text |-> bytes]
      [] OTHER -> [ok |-> TRUE, text |-> bytes]

\* read_log: the file's bytes are decoded as a whole before json.load parses
\* them; every exception and every value that is no list gives []
read_log(file, platform) ==
    IF file.kind = "missing" THEN << >>
    ELSE IF \E i \in 1..Len(file.entries) : ~DecodeText(file.entries[i], platform).ok
    THEN << >>
    ELSE IF file.kind # "list" THEN << >>
    ELSE [i \in 1..Len(file.entries) |-> DecodeText(file.entries[i], platform).text]

\* texts that UTF-8 encodes
Writable(text) == \A k \in 1..Len(text) : Encodable(text[k])

\* the entries before the first one that UTF-8 does not encode
WrittenBefore(logs) ==
    SubSeq(logs, 1, (CHOOSE i \in 1..Len(logs) :
                        /\ ~Writable(logs[i])
                        /\ \A j \in 1..(i - 1) : Writable(logs[j])) - 1)

\* write_log: open(..., "w") empties the file and json.dump writes the
\* entries one after the other; UnicodeEncodeError ends the writing and is
\* caught, and the file keeps what was written until then
write_log(logs) ==
    IF \A i \in 1..Len(logs) : Writable(logs[i])
    THEN [kind |-> "list", entries |-> [i \in 1..Len(logs) |-> Utf8Encode(logs[i])]]
    ELSE [kind |-> "invalid",
          entries |-> [i \in 1..Len(WrittenBefore(logs)) |->
                          Utf8Encode(WrittenBefore(logs)[i])]]

\* texts of the entries a log holds before a run
OldTexts == { << Letter >>, << Letter, Umlaut >> }

\* log.json before the first run: missing, no JSON, no list, or a list the
\* program wrote
LogFiles ==
    { NoFile, [kind |-> "invalid", entries |-> << << Letter >> >>],
      [kind |-> "notlist", entries |-> << Utf8Encode(<< Letter, Umlaut >>) >>] }
      \cup { write_log(logs) : logs \in SeqsUpTo(OldTexts, MaxEntries) }

\* log_data of a run: its text holds the folder and the file names
NewEntries == { << Letter >>, << Umlaut, Letter >>, << Letter, Surrogate >> }

\* the encodings open() takes from the platform
Platforms == {"utf-8", "ascii", "latin-1"}

InitLog ==
    /\ log_file \in LogFiles
    /\ encoding \in Platforms
    /\ all_logs = << >>
    /\ lpc = "idle"
    /\ CodecIdle /\ FilterIdle /\ GridIdle /\ DeltaIdle /\ WalkIdle /\ TreeIdle

\* all_logs = read_log(CHECKSUM_FILE)
ReadLog ==
    /\ lpc = "idle"
    /\ Len(log_file.entries) <= MaxEntries
    /\ all_logs' = read_log(log_file, encoding)
    /\ lpc' = "read"
    /\ UNCHANGED << log_file, encoding >>
    /\ UNCHANGED << codecVars, filterVars, gridVars, deltaVars, walkVars, treeVars >>

\* all_logs.append(log_data); write_log(CHECKSUM_FILE, all_logs); the run ends
AppendAndWrite ==
    /\ lpc = "read"
    /\ \E log_data \in NewEntries :
          /\ all_logs' = Append(all_logs, log_data)
          /\ log_file' = write_log(Append(all_logs, log_data))
    /\ lpc' = "idle"
    /\ UNCHANGED encoding
    /\ UNCHANGED << codecVars, filterVars, gridVars, deltaVars, walkVars, treeVars >>

NextLog == ReadLog \/ AppendAndWrite

SpecLog == InitLog /\ [][NextLog]_vars

(***************************************************************************)
(* The chunk walk of manual_png_decode step by step: one action for the    *)
(* signature check and one for each pass through the while loop, on the    *)
(* encoder's containers, on every prefix of them, and on containers with   *)
(* chunks added or left out.                                               *)
(***************************************************************************)
\* payloads whose containers are walked
WalkPayloads == { << >>, << 0 >>, Ramp(MaxRun) }

\* the containers the encoder returns for them
WalkEncoded ==
    { bytes_to_png_data(i, c, ft, il, {}).png_data :
        i \in WalkPayloads, c \in BOOLEAN, ft \in {"mp3", "wav"}, il \in BOOLEAN }

\* a container, its proper prefixes, and its variants with unknown chunks
\* added or a mandatory chunk left out
WalkVariants(png_data) ==
    { Slice(png_data, 0, k) : k \in 0..Len(png_data) }
      \cup { WithUnknown(png_data, UnknownChunks(n, data), after_ihdr) :
                n \in 1..MaxUnknown, data \in UnknownData, after_ihdr \in BOOLEAN }
      \cup { Dropped(kind, png_data) : kind \in DropEdits }

WalkInputs == UNION { WalkVariants(png_data) : png_data \in WalkEncoded }

\* before the call
InitWalk ==
    /\ CodecIdle /\ FilterIdle /\ GridIdle /\ DeltaIdle /\ OthersIdle

\* a caller passes a container to manual_png_decode
CallManualDecode ==
    /\ walk.pc = "idle"
    /\ png' \in WalkInputs
    /\ walk' = [NoWalk EXCEPT !.pc = "start"]
    /\ UNCHANGED << input, color, file_type, use_rgb_interleaved, raising, pc, enc,
                    foreign, edit, dec, lib >>
    /\ UNCHANGED << filterVars, gridVars, deltaVars, treeVars, logVars >>

\* the call left the function at the statement named exit: a raise
\* statement, or the IDAT branch, which ends the call with a return or a
\* raise of its own
Finished(w, exit) == [w EXCEPT !.pc = "done", !.exit = exit]

\* one pass through the while loop with the locals w
ChunkStep(png_data, w) ==
    IF w.pos >= Len(png_data) THEN Finished(w, "ValueError: IDAT not found")
    ELSE IF Len(png_data) - w.pos < 4 THEN Finished(w, "struct.error")
    ELSE
    LET chunk_length == UnpackBE32(Slice(png_data, w.pos, w.pos + 4))
        chunk_type == Slice(png_data, w.pos + 4, w.pos + 8)
    IN IF chunk_type = IHDR
       THEN IF Len(png_data) < w.pos + 16 THEN Finished(w, "struct.error")
            ELSE IF Len(png_data) < w.pos + 18 THEN Finished(w, "IndexError")
            ELSE [w EXCEPT
                    !.pos = w.pos + 12 + chunk_length,
                    !.width = UnpackBE32(Slice(png_data, w.pos + 8, w.pos + 12)),
                    !.height = UnpackBE32(Slice(png_data, w.pos + 12, w.pos + 16)),
                    !.bit_depth = At(png_data, w.pos + 16),
                    !.color_type = At(png_data, w.pos + 17)]
       ELSE IF chunk_type = IDAT THEN Finished(w, "IDAT")
       ELSE IF chunk_type = IEND THEN Finished(w, "ValueError: IDAT not found")
       ELSE [w EXCEPT !.pos = SkipUnknown(w.pos, chunk_length)]

\* what the call that ended with the locals w gave its caller
WalkOutcome(png_data, w) ==
    IF w.exit = "IDAT"
    THEN DecodeIdat(png_data, w.pos,
                    UnpackBE32(Slice(png_data, w.pos, w.pos + 4)),
                    w.width, w.height, w.color_type)
    ELSE DecodeRaise(w.exit)

\* the signature check and the initial values of the locals
CheckSignature ==
    /\ walk.pc = "start"
    /\ walk' = IF Slice(png, 0, 8) # png_signature
               THEN Finished(walk, "ValueError: bad signature")
               ELSE [walk EXCEPT !.pc = "loop", !.pos = 8]
    /\ UNCHANGED << codecVars, filterVars, gridVars, deltaVars, treeVars, logVars >>

\* one pass through the while loop
LoopStep ==
    /\ walk.pc = "loop"
    /\ walk' = ChunkStep(png, walk)
    /\ UNCHANGED << codecVars, filterVars, gridVars, deltaVars, treeVars, logVars >>

NextWalk == CallManualDecode \/ CheckSignature \/ LoopStep

\* a call that started runs on: no statement of the function waits for
\* anything; whether a caller calls at all is left open
SpecWalk ==
    InitWalk /\ [][NextWalk]_vars /\ WF_vars(CheckSignature) /\ WF_vars(LoopStep)

(***************************************************************************)
(* Properties                                                              *)
(***************************************************************************)
\* the states after decoding the container the encoder itself returned
HonestDecoded == pc = "decoded" /\ ~foreign

\* the data the negotiator is called with
NegotiatorInput ==
    IF file_type = "wav" THEN apply_delta_encoding_optimized(input) ELSE input

\* the backends the negotiator tries
Backends == IF HAS_BROTLI THEN {"brotli", "zlib"} ELSE {"zlib"}

\* the backends whose trial succeeded in this run
Succeeded == { b \in Backends : TryCompress(b, NegotiatorInput, raising).ok }

\* C1: round-trip identity - for every payload and every combination of
\* color, use_rgb_interleaved and file_type, decoding the container that
\* bytes_to_png_data produced returns exactly the payload.
C1_RoundTrip ==
    (HonestDecoded /\ raising = {}) => (dec.kind = "ok" /\ dec.bytes = input)

\* C2: whenever decode returns bytes, they have exactly the length of the
\* embedded header's originalLength and their CRC-32 is the header's
\* checksum; with a mismatch of either, decode raises and returns nothing.
C2_ReturnedMatchesHeader ==
    /\ (pc = "decoded" /\ dec.kind = "ok") =>
          /\ Len(dec.bytes) = dec.length
          /\ crc32(dec.bytes) = dec.checksum
    /\ (pc = "decoded" /\ dec.kind = "error") => dec.bytes = << >>

\* C2 witness: decode returned a payload of more than one byte
C2_Witness == pc = "decoded" /\ dec.kind = "ok" /\ Len(dec.bytes) > 1

\* C3: when the encoder applied the delta pre-filter (file_type 'wav'), a
\* successful decode returns the original pre-delta payload.
C3_DeltaReversed ==
    (HonestDecoded /\ file_type = "wav" /\ dec.kind = "ok") => dec.bytes = input

\* C4: the checksum field bytes_to_png_data writes into the embedded header
\* is the CRC-32 of the caller's payload, before delta encoding and before
\* compression, for every payload and file_type.
C4_ChecksumOfLogicalPayload ==
    pc \in {"encoded", "decoded"} =>
        /\ enc.checksum = crc32(input)
        /\ Slice(enc.data_with_header, 8, 12) = crc32(input)

\* C5: filter invertibility - for every filter id 0..4 and every row and
\* previous row, what the decoder's row loop reads back from
\* apply_png_filter(row, prev, id) is the row.
C5_FilterInvertible == fpc = "unpacked" => unpacked = row_data

\* C6: for every filter type t in 0..4 the first byte of
\* apply_png_filter(row, prev, t) is t and the result is one byte longer
\* than the row; so the tag of the row find_best_filter returns is the
\* filter type it returns.
C6_TagIsFilterType ==
    /\ fpc = "filtered" =>
          /\ filtered[1] = filter_type
          /\ Len(filtered) = Len(row_data) + 1
    /\ (fpc = "searched" /\ best.found) => best.best_filtered[1] = best.best_type

\* C7: with RGB colour, interleaving on and delta off, decode reverses the
\* channel interleaving and returns all payload bytes in their order, and
\* the header's checksum is the CRC-32 of the payload.
C7_InterleavedRoundTrip ==
    (HonestDecoded /\ raising = {} /\ color /\ use_rgb_interleaved
       /\ file_type = "mp3") =>
        /\ dec.kind = "ok"
        /\ dec.bytes = input
        /\ enc.checksum = crc32(input)

\* C8: for non-interleaved RGB the decoder recovers all three bytes of
\* every pixel in row-major order: the byte stream it rebuilds is the
\* framed payload followed only by zero padding.
C8_RgbUnpackInverse ==
    (HonestDecoded /\ color /\ ~use_rgb_interleaved) =>
        /\ Slice(dec.data, 0, Len(enc.data_with_header)) = enc.data_with_header
        /\ \A i \in 1..Len(dec.data) :
              i > Len(enc.data_with_header) => dec.data[i] = 0

\* C9: with file_type 'mp3' the negotiator returns the data unmodified with
\* compression id 255, and when the id the decoder reads is 255 it takes
\* the body as it is and calls no decompressor.
C9_NoneMeansUntouched ==
    /\ (pc \in {"encoded", "decoded"} /\ file_type = "mp3") =>
          /\ enc.compressed_audio = input
          /\ enc.compression_type = CompressionNone
    /\ (pc = "decoded" /\ dec.reached /\ dec.compression_type = CompressionNone) =>
          /\ dec.decompressor = "none"
          /\ (dec.kind = "ok" => dec.bytes = dec.compressed_audio)

\* C9 witness: an 'mp3' payload went through encode and decode with id 255
C9_Witness ==
    /\ HonestDecoded /\ file_type = "mp3" /\ Len(input) > 1
    /\ dec.reached /\ dec.compression_type = CompressionNone /\ dec.kind = "ok"

\* C10: for a payload not hinted as compressed, when a backend succeeded,
\* compress_with_best_algorithm returns the output of a backend that
\* succeeded and whose output is no longer than that of any backend that
\* succeeded, and the returned id is that backend's (0 zlib, 1 brotli).
C10_SmallestBackendWins ==
    (pc \in {"encoded", "encode_raised", "decoded"} /\ file_type # "mp3"
       /\ Succeeded # {}) =>
        LET winner == IF enc.compression_type = CompressionBrotli
                      THEN "brotli" ELSE "zlib"
        IN /\ enc.ok
           /\ enc.compression_type \in {CompressionZlib, CompressionBrotli}
           /\ winner \in Succeeded
           /\ enc.compressed_audio = TryCompress(winner, NegotiatorInput, raising).bytes
           /\ \A b \in Succeeded :
                 Len(enc.compressed_audio)
                    <= Len(TryCompress(b, NegotiatorInput, raising).bytes)

\* C10 witness: both backends succeeded and zlib, tried second, was smaller
C10_Witness ==
    /\ pc = "encoded" /\ file_type = "wav" /\ raising = {}
    /\ enc.compression_type = CompressionZlib
    /\ Len(enc.compressed_audio) < Len(brotli_compress(NegotiatorInput).bytes)

\* C11: negotiation is never fatal - a backend that raises is skipped, and
\* when no backend succeeds the negotiator returns the input data unmodified
\* with compression id 255, so the encoder still returns a container.
C11_NegotiationNeverFatal ==
    (pc \in {"encoded", "encode_raised", "decoded"} /\ file_type # "mp3") =>
        /\ Succeeded # {} => enc.ok
        /\ Succeeded = {} =>
              /\ ~compress_with_best_algorithm(NegotiatorInput, file_type, raising).is_none
              /\ compress_with_best_algorithm(NegotiatorInput, file_type, raising).best_data
                    = NegotiatorInput
              /\ compress_with_best_algorithm(NegotiatorInput, file_type, raising).best_type
                    = CompressionNone
              /\ enc.ok

\* the errors of the decoder that say the recorded codec is not available
UnsupportedCodecErrors == { "ValueError: brotli unavailable" }

\* C12: decode dispatches only on the recorded compression id - id 0 goes to
\* zlib, id 1 to brotli, id 255 to no codec; an id with no available backend
\* (1 without brotli, or any other id) makes decode fail with an
\* unsupported-codec error and no codec is called in its place.
C12_DispatchOnRecordedId ==
    (pc = "decoded" /\ dec.reached) =>
        /\ dec.compression_type = CompressionZlib => dec.decompressor = "zlib"
        /\ dec.compression_type = CompressionNone => dec.decompressor = "none"
        /\ (dec.compression_type = CompressionBrotli /\ HAS_BROTLI)
              => dec.decompressor = "brotli"
        /\ (dec.compression_type \notin
                {CompressionZlib, CompressionBrotli, CompressionNone}
              \/ (dec.compression_type = CompressionBrotli /\ ~HAS_BROTLI)) =>
              /\ dec.decompressor = "unavailable"
              /\ dec.kind = "error"
              /\ dec.error \in UnsupportedCodecErrors

\* C13: decode recomputes each chunk's CRC-32 trailer over type tag and data
\* and rejects the container when the stored trailer differs; so after a
\* single bit of the IDAT chunk's trailer or data is flipped, decode fails
\* and returns no bytes.
C13_ChunkCrcVerified ==
    (pc = "decoded" /\ edit \in {"trailer", "body"}) =>
        (dec.kind = "error" /\ dec.bytes = << >>)

C15_MandatoryChunks ==
    (pc = "decoded" /\ edit \in DropEdits) =>
        /\ dec.kind = "error"
        /\ dec.error \in MissingChunkErrors
        /\ dec.bytes = << >>

\* C16: chunks of unknown type before the IDAT chunk are skipped by their
\* declared length: a container with any number of well-formed unknown chunks
\* put between the signature and the IDAT chunk decodes to the same outcome
\* as the container without them.
C16_UnknownChunksSkipped ==
    (pc = "decoded" /\ edit = "unknown") => dec = manual_png_decode(enc.png_data)

\* C16 witness: a container with more than one unknown chunk with data in
\* front of its IDAT chunk was decoded to the payload
C16_Witness ==
    /\ pc = "decoded" /\ edit = "unknown"
    /\ Len(png) > Len(enc.png_data) + 24
    /\ dec.kind = "ok" /\ dec.bytes = input /\ input # << >>

\* C17: an IHDR chunk with an unsupported value (bit depth other than 8, an
\* unsupported colour type, width 0) is rejected with an error when it is
\* parsed: decode never goes on to unpack pixel data under such an IHDR.
C17_IhdrValidated ==
    (pc = "decoded" /\ edit \in IhdrEdits) =>
        /\ dec.kind = "error"
        /\ dec.bytes = << >>
        /\ ~dec.reached
        /\ dec.data = << >>

\* C18: when fewer than 15 bytes of unpacked pixel data are there for the
\* embedded header, decode fails with the header-too-short error before any
\* header field is read; header fields are read from 15 bytes or more only.
C18_TruncatedHeader ==
    pc = "decoded" =>
        /\ dec.reached => Len(dec.data) >= 15
        /\ (edit = "short" /\ UnpackBE32(Slice(png, 16, 20)) < 15) =>
              /\ dec.kind = "error"
              /\ dec.error = "ValueError: header too short"
              /\ ~dec.reached
              /\ dec.bytes = << >>

\* C18 witness: a container with 14 bytes of pixel data was rejected
C18_Witness ==
    /\ pc = "decoded" /\ edit = "short" /\ Len(dec.data) = 14
    /\ dec.error = "ValueError: header too short"

\* C19: for every input (the empty one included) and every mode the returned
\* container is the 8-byte signature, one IHDR chunk (width, height, bit depth
\* 8, colour type, three zero bytes), one IDAT chunk and one zero-length IEND
\* chunk, in that order, and nothing else; each chunk is its data length
\* (big-endian), its 4-byte type tag, its data and the big-endian CRC-32 of
\* type tag and data.
C19_ContainerLayout ==
    enc.ok =>
        LET p == enc.png_data
            n == Len(enc.png_data) - 57
        IN /\ n >= 0
           /\ Slice(p, 0, 8) = << 137, 80, 78, 71, 13, 10, 26, 10 >>
           /\ Slice(p, 8, 12) = << 0, 0, 0, 13 >>
           /\ Slice(p, 12, 16) = << 73, 72, 68, 82 >>
           /\ Slice(p, 16, 20) = PackBE32(enc.width)
           /\ Slice(p, 20, 24) = PackBE32(enc.height)
           /\ At(p, 24) = 8
           /\ At(p, 25) = (IF color /\ ~use_rgb_interleaved THEN 2 ELSE 0)
           /\ Slice(p, 26, 29) = << 0, 0, 0 >>
           /\ Slice(p, 29, 33) = Reverse(crc32(Slice(p, 12, 29)))
           /\ Slice(p, 33, 37) = PackBE32(n)
           /\ Slice(p, 37, 41) = << 73, 68, 65, 84 >>
           /\ Slice(p, 41 + n, 45 + n) = Reverse(crc32(Slice(p, 37, 41 + n)))
           /\ Slice(p, 45 + n, 49 + n) = << 0, 0, 0, 0 >>
           /\ Slice(p, 49 + n, 53 + n) = << 73, 69, 78, 68 >>
           /\ Slice(p, 53 + n, 57 + n) = Reverse(crc32(<< 73, 69, 78, 68 >>))
           /\ Slice(p, 53 + n, 57 + n) = << 174, 66, 96, 130 >>

\* C19 witness: the container of the empty input in RGB mode was returned
C19_Witness ==
    /\ pc = "encoded" /\ input = << >> /\ color /\ ~use_rgb_interleaved
    /\ enc.ok /\ Len(enc.png_data) > 57 /\ enc.width > 0

\* the least number of pixels of bpp bytes that hold n bytes
CeilDiv(n, bpp) == CHOOSE q \in 0..n : q * bpp >= n /\ (q - 1) * bpp < n

\* C20: in grayscale and in non-interleaved RGB mode the grid is
\* width = min(1024, pixelCount) wide and height = ceil(pixelCount / width)
\* high, where pixelCount = ceil(len(framed payload) / bytes per pixel); the
\* rows hold the framed payload and zero bytes after it.
C20_GridDimensions ==
    (gpc = "packed" /\ ~(color /\ use_rgb_interleaved)) =>
        LET bpp == IF color THEN 3 ELSE 1
            pixelCount == CeilDiv(Len(framed), bpp)
            bytes == Concat(grid.rows)
        IN /\ grid.width = (IF pixelCount < 1024 THEN pixelCount ELSE 1024)
           /\ grid.height = CeilDiv(pixelCount, grid.width)
           /\ Len(grid.rows) = grid.height
           /\ \A r \in 1..Len(grid.rows) : Len(grid.rows[r]) = grid.width * bpp
           /\ Slice(bytes, 0, Len(framed)) = framed
           /\ \A k \in (Len(framed) + 1)..Len(bytes) : bytes[k] = 0

\* C20 witness: an RGB grid of more than one row with zero bytes after the
\* payload was laid out
C20_Witness ==
    /\ gpc = "packed" /\ color /\ ~use_rgb_interleaved
    /\ grid.width = 1024 /\ grid.height = 2
    /\ Len(Concat(grid.rows)) > Len(framed)

\* C21: decoding the delta encoding of a byte string gives the byte string
\* back, for every byte string; the encoding has the length of its input, and
\* the empty string and strings of one byte are returned unchanged.
C21_DeltaRoundTrip ==
    /\ dpc \in {"encoded", "decoded"} =>
          /\ Len(delta_encoded) = Len(delta_data)
          /\ Len(delta_data) <= 1 => delta_encoded = delta_data
    /\ dpc = "decoded" => delta_decoded = delta_data

\* C21 witness: a string of three or more bytes whose differences wrap
\* around was encoded to other bytes and decoded
C21_Witness ==
    /\ dpc = "decoded" /\ Len(delta_data) >= 3
    /\ delta_encoded # delta_data
    /\ \E i \in 2..Len(delta_data) : delta_data[i] < delta_data[i - 1]

\* C22: the two decode paths agree: on every container png_data_to_bytes
\* with the image library installed has the outcome of manual_png_decode,
\* the same returned bytes or a failure.
C22_DecodePathsAgree ==
    (pc = "decoded" /\ lib # NotDecoded) =>
        /\ lib.kind = dec.kind
        /\ lib.bytes = dec.bytes

\* C23: for filter ids 1..4 every byte of apply_png_filter's result after the
\* tag is (original - predictor) mod 256, where left, up and upLeft are 0
\* when absent and the predictor is left for Sub, up for Up,
\* floor((left + up) / 2) for Average and for Paeth the first of left, up,
\* upLeft that is closest to left + up - upLeft; for id 0 the row follows the
\* tag unchanged.
C23_FilterArithmetic ==
    fpc = "filtered" =>
        /\ Len(filtered) = Len(row_data) + 1
        /\ \A i \in 1..Len(row_data) :
              LET left == IF i > 1 THEN row_data[i - 1] ELSE 0
                  up == IF i <= Len(prev_row) THEN prev_row[i] ELSE 0
                  upLeft == IF i > 1 /\ i - 1 <= Len(prev_row)
                            THEN prev_row[i - 1] ELSE 0
                  cand == << left, up, upLeft >>
                  p == left + up - upLeft
                  k == CHOOSE k \in 1..3 :
                          /\ \A j \in 1..3 : Abs(p - cand[k]) <= Abs(p - cand[j])
                          /\ \A j \in 1..(k - 1) : Abs(p - cand[j]) > Abs(p - cand[k])
                  predictor == CASE filter_type = 0 -> 0
                                 [] filter_type = 1 -> left
                                 [] filter_type = 2 -> up
                                 [] filter_type = 3 -> (left + up) \div 2
                                 [] OTHER -> cand[k]
              IN filtered[i + 1] = (row_data[i] + 256 - predictor) % 256

\* C23 witness: the Paeth filter was applied to a row of two bytes under a
\* previous row and changed it
C23_Witness ==
    /\ fpc = "filtered" /\ filter_type = 4 /\ Len(row_data) = 2
    /\ Len(prev_row) = 2 /\ prev_row[1] # 0
    /\ SubSeq(filtered, 2, 3) # row_data

\* C24: find_best_filter returns (type, size, filtered) with type in 0..4,
\* filtered the non-empty result of apply_png_filter for that type, and size
\* the least compressed length of the five candidates under the compression
\* function it was given.
C24_BestFilter ==
    fpc = "searched" =>
        /\ best.found
        /\ best.best_type \in 0..4
        /\ best.best_filtered = apply_png_filter(row_data, prev_row, best.best_type)
        /\ Len(best.best_filtered) > 0
        /\ best.best_size = Len(zlib_compress(best.best_filtered).bytes)
        /\ \A t \in 0..4 :
              best.best_size
                  <= Len(zlib_compress(apply_png_filter(row_data, prev_row, t)).bytes)

\* C24 witness: a filter other than None compressed the row smaller than
\* None does and was returned
C24_Witness ==
    /\ fpc = "searched" /\ best.best_type # 0
    /\ best.best_size
           < Len(zlib_compress(apply_png_filter(row_data, prev_row, 0)).bytes)

\* C25: in RGB interleaved mode the framed byte at index i is stored in
\* channel i mod 3 at position floor(i / 3); the three channels are
\* ceil(len(framed) / 3) long with zero in the unused positions, and the
\* grid is 3 high and one channel wide, one channel per row in the order
\* R, G, B.
C25_InterleavedChannels ==
    (gpc = "packed" /\ color /\ use_rgb_interleaved) =>
        /\ grid.height = 3
        /\ Len(grid.rows) = 3
        /\ grid.width = CeilDiv(Len(framed), 3)
        /\ \A c \in 1..3 : Len(grid.rows[c]) = grid.width
        /\ \A i \in 0..(Len(framed) - 1) :
              grid.rows[(i % 3) + 1][(i \div 3) + 1] = framed[i + 1]
        /\ \A c \in 1..3 : \A k \in 1..grid.width :
              3 * (k - 1) + (c - 1) >= Len(framed) => grid.rows[c][k] = 0

\* C25 witness: a framed payload whose length is no multiple of 3 was split
\* into channels, the last one ending in a zero
C25_Witness ==
    /\ gpc = "packed" /\ color /\ use_rgb_interleaved
    /\ Len(framed) % 3 = 1
    /\ grid.rows[1][grid.width] # 0
    /\ grid.rows[3][grid.width] = 0

\* C26: the chunk walk of manual_png_decode is linear and ends: from one
\* pass through the loop to the next the read position grows, every call
\* that started comes to its end, and at its end it returned bytes or
\* raised an error.
C26_WalkTerminates ==
    /\ [][(walk.pc = "loop" /\ walk'.pc = "loop") => walk'.pos > walk.pos]_vars
    /\ [](walk.pc = "done" => WalkOutcome(png, walk).kind \in {"ok", "error"})
    /\ (walk.pc = "start") ~> (walk.pc = "done")

\* C26 witness: a walk over unknown chunks reached an IDAT chunk behind them
\* and returned the payload
C26_Witness ==
    /\ walk.pc = "done" /\ walk.pos > 33
    /\ WalkOutcome(png, walk).kind = "ok"
    /\ WalkOutcome(png, walk).bytes # << >>

\* C27: for every container of the encoder, the bytes the decoder hands to
\* the decompressor, or takes as the payload for id none, are the compressed
\* body the encoder wrote behind the 15-byte header, also when that body is
\* longer than originalLength.
C27_BodyHandedWhole ==
    (/\ pc = "decoded" /\ ~foreign /\ dec.reached
     /\ dec.decompressor \in {"none", "brotli", "zlib"})
        => dec.compressed_audio = enc.compressed_audio

\* C28: in every mode the grid has a width and a height of at least one
\* and room for the whole framed payload (three rows of width bytes in the
\* interleaved layout); every framed byte is in the grid; and the filtered
\* stream is height rows of one filter byte and the row's bytes.
C28_GridCapacity ==
    /\ gpc \in {"packed", "filtered"} =>
          LET bytesPerPixel == BytesPerPixel(color, use_rgb_interleaved)
          IN /\ grid.width >= 1 /\ grid.height >= 1
             /\ grid.width * grid.height * bytesPerPixel >= Len(framed)
             /\ (color /\ use_rgb_interleaved) => 3 * grid.width >= Len(framed)
             /\ Len(grid.rows) = grid.height
             /\ IF color /\ use_rgb_interleaved
                THEN \A i \in 0..(Len(framed) - 1) :
                        grid.rows[(i % 3) + 1][(i \div 3) + 1] = At(framed, i)
                ELSE \A i \in 0..(Len(framed) - 1) :
                        At(Concat(grid.rows), i) = At(framed, i)
    /\ gpc = "filtered" =>
          LET row_bytes == grid.width * BytesPerPixel(color, use_rgb_interleaved)
          IN /\ Len(grid.raw_data) = grid.height * (row_bytes + 1)
             /\ \A r \in 0..(grid.height - 1) :
                    grid.raw_data[r * (row_bytes + 1) + 1] \in 0..4

\* C28 witness: a grid of three rows whose last row the payload does not
\* fill was filtered
C28_Witness ==
    /\ gpc = "filtered" /\ grid.height = 3 /\ grid.width > 5
    /\ Len(framed) < grid.width * grid.height
    /\ Len(grid.raw_data) = 3 * (grid.width + 1)

RECURSIVE SumSeq(_)
\* the sum of a sequence of numbers
SumSeq(numbers) ==
    IF numbers = << >> THEN 0 ELSE Head(numbers) + SumSeq(Tail(numbers))

RECURSIVE HasNode(_, _)
\* whether the tree has a node at the path, from the node on
HasNode(node, path) ==
    IF path = << >> THEN TRUE
    ELSE \E i \in 1..Len(node.subdirectories) :
            /\ node.subdirectories[i].name = Head(path)
            /\ HasNode(node.subdirectories[i], Tail(path))

RECURSIVE FilesAt(_, _)
\* the files of the node at the path
FilesAt(node, path) ==
    IF path = << >> THEN node.files
    ELSE FilesAt(node.subdirectories[CHOOSE i \in 1..Len(node.subdirectories) :
                                        node.subdirectories[i].name = Head(path)],
                 Tail(path))

RECURSIVE CountFiles(_)
\* number of file entries in the tree below and at the node
CountFiles(node) ==
    Len(node.files)
      + SumSeq([i \in 1..Len(node.subdirectories) |-> CountFiles(node.subdirectories[i])])

RECURSIVE SortedNames(_)
\* every node's subdirectories are in the order of their names
SortedNames(node) ==
    /\ \A i \in 1..(Len(node.subdirectories) - 1) :
          NameOrder(node.subdirectories[i].name)
            < NameOrder(node.subdirectories[i + 1].name)
    /\ \A i \in 1..Len(node.subdirectories) : SortedNames(node.subdirectories[i])

\* C29: build_directory_tree loses nothing: the file entries of every key of
\* directory_map are, once, at the node reached from the root by the names
\* of the key's path, also when a directory on the way is no key; and every
\* node's subdirectories are sorted by name.
C29_TreeLosesNothing ==
    tpc = "built" =>
        /\ \A i \in 1..Len(directory_map) :
              /\ HasNode(tree, directory_map[i].key)
              /\ FilesAt(tree, directory_map[i].key) = directory_map[i].files
        /\ CountFiles(tree)
             = SumSeq([i \in 1..Len(directory_map) |-> Len(directory_map[i].files)])
        /\ SortedNames(tree)

\* C30: the log is append-only across runs: read_log gives a list, the
\* empty one when log.json is missing, unreadable or no JSON list; and a run
\* that finds a JSON list in log.json leaves a JSON list with the same
\* entries in the same order and exactly one new entry after them.
C30_LogAppendOnly ==
    [][/\ (lpc = "idle" /\ lpc' = "read" /\ log_file.kind # "list")
            => all_logs' = << >>
       /\ (lpc = "read" /\ lpc' = "idle" /\ log_file.kind = "list")
            => /\ log_file'.kind = "list"
               /\ Len(log_file'.entries) = Len(log_file.entries) + 1
               /\ SubSeq(log_file'.entries, 1, Len(log_file.entries))
                    = log_file.entries]_vars

====
